---- MODULE Spec2Model ----
(***************************************************************************)
(* The vote path of the segment server: vote(), categoryVote(), the        *)
(* background duration check and the redis lock, as a state machine over   *)
(* the public store (sponsorTimes, categoryVotes, lockCategories), the     *)
(* private store (votes, categoryVotes) and the lock keys.                 *)
(*                                                                         *)
(* Every handler step is an operator from a world (the record of all       *)
(* mutable state) to the set of worlds the step can produce; one step is   *)
(* the code between two awaits, and every transition takes one step.  The  *)
(* sequential specifications start a call only when no call is running;    *)
(* the detached duration check still interleaves with the call after it.   *)
(***************************************************************************)
EXTENDS Integers, Sequences, FiniteSets, TLC

(* ------------------------------ bounds --------------------------------- *)
MaxCalls == 2
VotesBelow == 15
VotesAbove == 3

(* ------------------------- program constants --------------------------- *)
Downvote == 0
Upvote == 1
ExtraDownvote == 2
Undo == 20
Malicious == 30
\* req.query.type absent (undefined) and unparsable (parseInt gives NaN)
TypeUndefined == 9999
TypeNaN == 9998
\* getVideoDetails found nothing: apiVideoDuration is undefined
NoDetails == 9997
\* the lookup of the video's page raises
ApiError == 9996
minUserIDLength == 30
maxNumberOfActiveWarnings == 1
hoursAfterWarningExpires == 24
MILLISECONDS_IN_HOUR == 3600000
now == 100000000
normal == 0
incorrect == 1

categoryList == {"sponsor", "intro", "chapter"}
categorySupport(c) ==
    CASE c = "sponsor" -> {"skip", "mute", "full"}
      [] c = "intro" -> {"skip", "mute"}
      [] c = "chapter" -> {"chapter"}
      [] OTHER -> {}

UUIDs == {"s1", "s2", "s3"}
IPs == {"ipX", "ipY"}
Procs == {"p1", "p2"}
VideoID == "v1"

\* paramUserID.length
length_AlwaysLong(u) == 32
length(u) == CASE u = "" -> 0 [] u = "tiny" -> 4 [] OTHER -> 32

(* ------------------------------ hashing -------------------------------- *)
\* getHashCache is a one-way injective hash: a tagged value
getHashCache(x) == <<"sha256", x>>
nonAnonUserIDOf(paramUserID) == getHashCache(paramUserID)
userIDOf(paramUserID, UUID) == getHashCache(<<paramUserID, UUID>>)
hashedIPOf(ip) == getHashCache(<<ip, "globalSalt">>)
lockKey(UUID, paramUserID) == <<"voteOnSponsorTime", UUID, paramUserID>>

(* ------------------------------- state --------------------------------- *)
VARIABLES
    sponsorTimes,           \* db: UUID -> segment row
    privateVotes,           \* privateDB "votes": sequence of rows
    categoryVotes,          \* db "categoryVotes": sequence of aggregate rows
    privateCategoryVotes,   \* privateDB "categoryVotes": sequence of rows
    lockCategories,         \* db "lockCategories": set of rows
    redis,                  \* lock keys present in the lock backend
    proc,                   \* per request slot: position and locals of vote()
    bg,                     \* detached checkVideoDuration / deleteLockCategories tasks
    calls,                  \* number of vote calls started
    log,                    \* the calls that have ended, in order of ending
    cache,                  \* <<rows>> a reader stored under the video's derived keys, or <<>>
    start,                  \* sponsorTimes as it was when the run began
    vips, tempVips, banned, \* answers of isUserVIP / isUserTempVIP / checkBanStatus
    warnings,               \* db "warnings" rows
    redisEnabled, redisFaulty, dbFaulty, apiAnswers,  \* environment
    callers                 \* the users whose requests arrive in this run

dyn == <<sponsorTimes, privateVotes, categoryVotes, privateCategoryVotes,
         lockCategories, redis, proc, bg, calls, log, cache>>
env == <<start, vips, tempVips, banned, warnings, redisEnabled, redisFaulty, dbFaulty,
         apiAnswers, callers>>
vars == <<dyn, env>>

World ==
    [sponsorTimes |-> sponsorTimes, privateVotes |-> privateVotes,
     categoryVotes |-> categoryVotes, privateCategoryVotes |-> privateCategoryVotes,
     lockCategories |-> lockCategories, redis |-> redis, proc |-> proc, bg |-> bg,
     calls |-> calls, log |-> log, cache |-> cache]

Install(w) ==
    /\ sponsorTimes' = w.sponsorTimes
    /\ privateVotes' = w.privateVotes
    /\ categoryVotes' = w.categoryVotes
    /\ privateCategoryVotes' = w.privateCategoryVotes
    /\ lockCategories' = w.lockCategories
    /\ redis' = w.redis
    /\ proc' = w.proc
    /\ bg' = w.bg
    /\ calls' = w.calls
    /\ log' = w.log
    /\ cache' = w.cache
    /\ UNCHANGED env

(* --------------------------- table helpers ----------------------------- *)
\* indices of the rows of table t that satisfy P, in table order
Matching(t, P(_)) == {i \in 1..Len(t) : P(t[i])}
Min(S) == CHOOSE x \in S : \A y \in S : x <= y
\* db.prepare("get", ...): the first matching row, or nothing
GetRow(t, P(_)) == IF Matching(t, P) = {} THEN <<>> ELSE <<t[Min(Matching(t, P))]>>
\* UPDATE ... WHERE P: F applied to every matching row
UpdateRows(t, P(_), F(_)) == [i \in 1..Len(t) |-> IF P(t[i]) THEN F(t[i]) ELSE t[i]]

\* JavaScript Math.ceil(n / 2), Math.min, Math.max, Math.abs on integers
CeilHalf(n) == -((-n) \div 2)
MathMin(a, b) == IF a <= b THEN a ELSE b
MathMax(a, b) == IF a >= b THEN a ELSE b
MathAbs(a) == IF a < 0 THEN -a ELSE a

\* a thrown persistence error is possible at every store access of a faulty run
MayThrow == dbFaulty

(* ------------------------- locals of one vote() ------------------------ *)
IdleLocal ==
    [pc |-> "idle", ip |-> "", UUID |-> "", paramUserID |-> "", type |-> TypeUndefined,
     category |-> "", originalType |-> TypeUndefined, unlockDel |-> FALSE, held |-> FALSE,
     segmentInfo |-> <<>>, isVIP |-> FALSE, isTempVIP |-> FALSE, isOwnSubmission |-> FALSE,
     blockVote |-> FALSE, voteTypeEnum |-> normal, votesRow |-> <<>>,
     incrementAmount |-> 0, oldIncrementAmount |-> 0, ableToVote |-> FALSE,
     applied |-> FALSE,
     videoDuration |-> 0, usersLastVoteInfo |-> <<>>, catSegmentInfo |-> <<>>,
     nextCategoryInfo |-> <<>>, currentCategoryInfo |-> <<>>, submissionInfo |-> <<>>,
     status |-> 0, message |-> <<>>, votesBefore |-> 0, lock |-> "none"]

SetProc(w, p, l) == [w EXCEPT !.proc[p] = l]
At(w, p, pc) == SetProc(w, p, [w.proc[p] EXCEPT !.pc = pc])

\* the votes of the segment a call names, 0 when there is no such segment
VotesOf(w, UUID) == IF UUID \in DOMAIN w.sponsorTimes THEN w.sponsorTimes[UUID].votes ELSE 0

Entry(w, p, outcome) ==
    LET l == w.proc[p] IN
    [paramUserID |-> l.paramUserID, UUID |-> l.UUID, type |-> l.originalType,
     category |-> l.category, ip |-> l.ip, outcome |-> outcome, status |-> l.status,
     message |-> l.message, held |-> l.held, isVIP |-> l.isVIP, isTempVIP |-> l.isTempVIP,
     isOwnSubmission |-> l.isOwnSubmission, applied |-> l.applied,
     incrementAmount |-> l.incrementAmount, oldIncrementAmount |-> l.oldIncrementAmount,
     votesRow |-> l.votesRow, storedType |-> l.type,
     readVotes |-> IF l.segmentInfo = <<>> THEN <<>> ELSE <<l.segmentInfo[1].votes>>,
     votesBefore |-> l.votesBefore, votesAfter |-> VotesOf(w, l.UUID),
     lock |-> l.lock, unlockDel |-> l.unlockDel]

\* vote() returns {status}
Return(w, p, status) ==
    LET w1 == SetProc(w, p, [w.proc[p] EXCEPT !.pc = "done", !.status = status])
    IN [w1 EXCEPT !.log = Append(@, Entry(w1, p, "returned"))]

\* an error leaves vote() as a rejected promise
Throw(w, p) ==
    LET w1 == SetProc(w, p, [w.proc[p] EXCEPT !.pc = "thrown", !.status = 0])
    IN [w1 EXCEPT !.log = Append(@, Entry(w1, p, "thrown"))]

(* ------------------------------ redisLock ------------------------------ *)
\* lock.unlock(): redis.del(key), its failure only logged; a no-op on the fallback lock
unlock(w, p) ==
    LET l == w.proc[p]
        w1 == SetProc(w, p, [l EXCEPT !.held = FALSE])
    IN IF ~l.unlockDel THEN {w1}
       ELSE {[w1 EXCEPT !.redis = @ \ {lockKey(l.UUID, l.paramUserID)}]}
            \cup (IF redisFaulty THEN {w1} ELSE {})

\* acquireLock(key): the set of {status, unlock deletes the key, redis afterwards, what
\* the backend did: disabled, set the key, found it set, raised an error}
acquireLock_NoExclusion(w, key) ==
    {[status |-> TRUE, unlockDel |-> TRUE, redis |-> w.redis \cup {key}, lock |-> "set"]}
acquireLock_ErrorRefuses(w, key) ==
    IF ~redisEnabled
    THEN {[status |-> TRUE, unlockDel |-> FALSE, redis |-> w.redis, lock |-> "disabled"]}
    ELSE (IF key \notin w.redis
          THEN {[status |-> TRUE, unlockDel |-> TRUE, redis |-> w.redis \cup {key}, lock |-> "set"]}
          ELSE {[status |-> FALSE, unlockDel |-> FALSE, redis |-> w.redis, lock |-> "busy"]})
         \cup (IF redisFaulty
               THEN {[status |-> FALSE, unlockDel |-> FALSE, redis |-> w.redis, lock |-> "error"]}
               ELSE {})
acquireLock(w, key) ==
    IF ~redisEnabled
    THEN {[status |-> TRUE, unlockDel |-> FALSE, redis |-> w.redis, lock |-> "disabled"]}
    ELSE (IF key \notin w.redis
          THEN {[status |-> TRUE, unlockDel |-> TRUE, redis |-> w.redis \cup {key}, lock |-> "set"]}
          ELSE {[status |-> FALSE, unlockDel |-> FALSE, redis |-> w.redis, lock |-> "busy"]})
         \cup (IF redisFaulty
               THEN {[status |-> TRUE, unlockDel |-> FALSE, redis |-> w.redis, lock |-> "error"]}
               ELSE {})

\* PX: timeout, lines 25-28: the key of a call that lasts longer than the lease is dropped
\* by the backend; the call keeps its unlock
expire(w, p) ==
    LET l == w.proc[p] IN
    [SetProc(w, p, [l EXCEPT !.lock = "expired"])
        EXCEPT !.redis = @ \ {lockKey(l.UUID, l.paramUserID)}]

UnlockReturn(w, p, status) == {Return(w1, p, status) : w1 \in unlock(w, p)}

(* --------------------------- collaborators ----------------------------- *)
isUserVIP(nonAnonUserID) == nonAnonUserID \in vips
isUserTempVIP(nonAnonUserID, videoID) == <<nonAnonUserID, videoID>> \in tempVips
\* bans are held per user id and per hashed IP
checkBanStatus_UserOnly(nonAnonUserID, hashedIP) == <<"userID", nonAnonUserID>> \in banned
checkBanStatus(nonAnonUserID, hashedIP) ==
    <<"userID", nonAnonUserID>> \in banned \/ <<"hashedIP", hashedIP>> \in banned

\* SELECT "reason" FROM warnings WHERE userID = ? AND issueTime > ? AND enabled = 1 AND type = 0
ActiveWarnings(nonAnonUserID) ==
    SelectSeq(warnings, LAMBDA r :
        /\ r.userID = nonAnonUserID
        /\ r.issueTime > now - hoursAfterWarningExpires * MILLISECONDS_IN_HOUR
        /\ r.enabled = 1
        /\ r.type = 0)

\* JavaScript on the request's type: !type, isNaN(type), type <= 0
Falsy(type) == type \in {TypeUndefined, TypeNaN, 0}
IsNaN(type) == type \in {TypeUndefined, TypeNaN}
LeqZero(type) == ~IsNaN(type) /\ type <= 0

(* ------------------------- vote(): entry, checks ----------------------- *)
\* lines 341-362: parameter checks, hashing, acquireLock
VoteStart(w, p, ip, UUID, paramUserID, type, category) ==
    LET l0 == [IdleLocal EXCEPT !.ip = ip, !.UUID = UUID, !.paramUserID = paramUserID,
                                !.type = type, !.category = category, !.originalType = type,
                                !.votesBefore = VotesOf(w, UUID)]
        w0 == [SetProc(w, p, l0) EXCEPT !.calls = @ + 1]
    IN IF UUID = "" \/ paramUserID = "" \/ ~(type # TypeUndefined \/ category # "")
       THEN {Return(w0, p, 400)}
       ELSE IF length(paramUserID) < minUserIDLength
       THEN {Return(w0, p, 200)}
       ELSE { IF a.status
              THEN SetProc([w0 EXCEPT !.redis = a.redis], p,
                           [l0 EXCEPT !.pc = "loadSegment", !.unlockDel = a.unlockDel,
                                      !.held = a.unlockDel, !.lock = a.lock])
              ELSE Return(SetProc(w0, p, [l0 EXCEPT !.message = <<"Vote already in progress">>,
                                                    !.lock = a.lock]),
                          p, 429)
              : a \in acquireLock(w0, lockKey(UUID, paramUserID)) }

\* line 373-378: SELECT * from "sponsorTimes" WHERE "UUID" = ?
LoadSegment(w, p) ==
    LET l == w.proc[p] IN
    (IF MayThrow THEN {Throw(w, p)} ELSE {})
    \cup (IF l.UUID \notin DOMAIN w.sponsorTimes
          THEN UnlockReturn(w, p, 404)
          ELSE {SetProc(w, p, [l EXCEPT !.pc = "checks",
                                        !.segmentInfo = <<w.sponsorTimes[l.UUID]>>])})

\* the 403 message of lines 404-410
WarningMessage(reason) == <<"Vote rejected due to a tip from a moderator", reason>>

Checks_BanBeforeWarnings(w, p) ==
    LET l == w.proc[p]
        nonAnonUserID == nonAnonUserIDOf(l.paramUserID)
        seg == l.segmentInfo[1]
        isBanned == checkBanStatus(nonAnonUserID, hashedIPOf(l.ip))
        l1 == [l EXCEPT !.isTempVIP = isUserTempVIP(nonAnonUserID, seg.videoID),
                        !.isVIP = isUserVIP(nonAnonUserID),
                        !.isOwnSubmission = (nonAnonUserID = seg.userID)]
        w1 == SetProc(w, p, l1)
        warns == ActiveWarnings(nonAnonUserID)
    IN (IF MayThrow THEN {Throw(w, p)} ELSE {})
       \cup
       (IF l.type = 10 \/ l.type = 11
        THEN UnlockReturn(w1, p, 400)
        ELSE IF isBanned
        THEN UnlockReturn(w1, p, 200)
        ELSE IF Len(warns) >= maxNumberOfActiveWarnings
        THEN \* warnings[0]?.reason, then warningReason.length; the query states no order,
             \* so any of its rows can come first
             IF Len(warns) = 0
             THEN {Throw(w2, p) : w2 \in unlock(w1, p)}
             ELSE UNION {IF warns[i].reason = "null"
                         THEN {Throw(w2, p) : w2 \in unlock(w1, p)}
                         ELSE UnlockReturn(SetProc(w1, p, [l1 EXCEPT !.message =
                                                WarningMessage(warns[i].reason)]), p, 403)
                         : i \in 1..Len(warns)}
        ELSE IF isBanned
        THEN UnlockReturn(w1, p, 200)
        ELSE IF Falsy(l.type) /\ l.category # ""
        THEN {At(w2, p, "cvLastVote") : w2 \in unlock(w1, p)}
        ELSE {At(w1, p, "lockCheck")})

\* lines 380-426: trust, ban, reserved types, warnings, the category branch
Checks(w, p) ==
    LET l == w.proc[p]
        nonAnonUserID == nonAnonUserIDOf(l.paramUserID)
        seg == l.segmentInfo[1]
        isBanned == checkBanStatus(nonAnonUserID, hashedIPOf(l.ip))
        l1 == [l EXCEPT !.isTempVIP = isUserTempVIP(nonAnonUserID, seg.videoID),
                        !.isVIP = isUserVIP(nonAnonUserID),
                        !.isOwnSubmission = (nonAnonUserID = seg.userID)]
        w1 == SetProc(w, p, l1)
        warns == ActiveWarnings(nonAnonUserID)
    IN (IF MayThrow THEN {Throw(w, p)} ELSE {})
       \cup
       (IF l.type = 10 \/ l.type = 11
        THEN UnlockReturn(w1, p, 400)
        ELSE IF Len(warns) >= maxNumberOfActiveWarnings
        THEN \* warnings[0]?.reason, then warningReason.length; the query states no order,
             \* so any of its rows can come first
             IF Len(warns) = 0
             THEN {Throw(w2, p) : w2 \in unlock(w1, p)}
             ELSE UNION {IF warns[i].reason = "null"
                         THEN {Throw(w2, p) : w2 \in unlock(w1, p)}
                         ELSE UnlockReturn(SetProc(w1, p, [l1 EXCEPT !.message =
                                                WarningMessage(warns[i].reason)]), p, 403)
                         : i \in 1..Len(warns)}
        ELSE IF isBanned
        THEN UnlockReturn(w1, p, 200)
        ELSE IF Falsy(l.type) /\ l.category # ""
        THEN {At(w2, p, "cvLastVote") : w2 \in unlock(w1, p)}
        ELSE {At(w1, p, "lockCheck")})

(* ----------------------- vote(): numeric pipeline ---------------------- *)
\* lines 431-438: a lockCategories row for the segment's video, category and action type
isVideoLocked(w, seg) ==
    \E r \in w.lockCategories :
        r.videoID = seg.videoID /\ r.category = seg.category /\ r.actionType = seg.actionType

\* line 464: checkVideoDuration(UUID) is started and not awaited
SpawnCheckVideoDuration(w, UUID) ==
    [w EXCEPT !.bg = @ \cup {[id |-> w.calls, pc |-> "cvdRead", UUID |-> UUID,
                              api |-> NoDetails, timeSubmitted |-> 0]}]

LockCheck_DeadBelowMinusTwo(w, p) ==
    LET l == w.proc[p]
        seg == l.segmentInfo[1]
        asks == ~l.isVIP /\ (l.type # 1 \/ seg.votes <= -2)
        readsStore == asks /\ seg.locked = 0
        block == asks /\ (seg.locked # 0 \/ isVideoLocked(w, seg))
        l1 == [l EXCEPT !.blockVote = block,
                        !.voteTypeEnum = IF l.type \in {0, 1, 20} THEN normal ELSE incorrect,
                        !.pc = "readVotesRow"]
        w1 == SetProc(w, p, l1)
        dead == /\ ~IsNaN(l.type) /\ seg.votes < -2 /\ seg.actionType # "full"
                /\ ~(l.isVIP \/ l.isTempVIP \/ l.isOwnSubmission)
    IN (IF MayThrow /\ readsStore THEN {Throw(w, p)} ELSE {})
       \cup
       (IF dead /\ l.type = 1
        THEN UnlockReturn(SetProc(w1, p, [l1 EXCEPT !.message =
                 <<"Not allowed to upvote segment with too many downvotes unless you are VIP.">>]),
                 p, 403)
        ELSE IF dead /\ l.type = 0
        THEN UnlockReturn(w1, p, 200)
        ELSE IF LeqZero(l.type)
        THEN {SpawnCheckVideoDuration(w1, l.UUID)}
        ELSE {w1})

\* lines 428-465: lock check, dead-segment returns, start of the duration check
LockCheck(w, p) ==
    LET l == w.proc[p]
        seg == l.segmentInfo[1]
        asks == ~l.isVIP /\ (l.type # 1 \/ seg.votes <= -2)
        readsStore == asks /\ seg.locked = 0
        block == asks /\ (seg.locked # 0 \/ isVideoLocked(w, seg))
        l1 == [l EXCEPT !.blockVote = block,
                        !.voteTypeEnum = IF l.type \in {0, 1, 20} THEN normal ELSE incorrect,
                        !.pc = "readVotesRow"]
        w1 == SetProc(w, p, l1)
        dead == /\ ~IsNaN(l.type) /\ seg.votes <= -2 /\ seg.actionType # "full"
                /\ ~(l.isVIP \/ l.isTempVIP \/ l.isOwnSubmission)
    IN (IF MayThrow /\ readsStore THEN {Throw(w, p)} ELSE {})
       \cup
       (IF dead /\ l.type = 1
        THEN UnlockReturn(SetProc(w1, p, [l1 EXCEPT !.message =
                 <<"Not allowed to upvote segment with too many downvotes unless you are VIP.">>]),
                 p, 403)
        ELSE IF dead /\ l.type = 0
        THEN UnlockReturn(w1, p, 200)
        ELSE IF LeqZero(l.type)
        THEN {SpawnCheckVideoDuration(w1, l.UUID)}
        ELSE {w1})

\* lines 493-512: the increment a stored vote type stands for
OldIncrement(type) ==
    CASE type = Upvote -> 1
      [] type = Downvote -> -1
      [] type = ExtraDownvote -> -4
      [] type = Undo -> 0
      [] type < 0 -> type
      [] type = 12 -> -500
      [] type = 13 -> 500
      [] OTHER -> 0

\* lines 514-519: a privileged downvote brings the segment to -2
AmplifyPrivileged_ToMinusOne(votes, oldIncrementAmount) == -(votes + 1 - oldIncrementAmount)
AmplifyPrivileged(votes, oldIncrementAmount) == -(votes + 2 - oldIncrementAmount)

\* lines 521-524: a malicious vote, capped at 5
AmplifyMalicious(votes, oldIncrementAmount) == -MathMin(votes + 2 - oldIncrementAmount, 5)

\* lines 528-534: the part of ableToVote decided before any store is asked
GateLocal_NoSelfVoteGuard(l) ==
    /\ ~(l.originalType = Malicious /\ l.segmentInfo[1].actionType # "chapter")
    /\ ~l.blockVote
GateLocal(l) ==
    /\ ~(l.isOwnSubmission /\ l.incrementAmount > 0 /\ l.oldIncrementAmount >= 0)
    /\ ~(l.originalType = Malicious /\ l.segmentInfo[1].actionType # "chapter")
    /\ ~l.blockVote   \* and finalStatus === 200, which nothing in vote() changes

\* 500 of the catch block, lines 595-600
Catch(w, p) ==
    {Return(SetProc(w1, p, [w1.proc[p] EXCEPT !.message = <<"Internal error creating segment vote">>]),
            p, 500) : w1 \in unlock(w, p)}
InTry(w, p) == IF MayThrow THEN Catch(w, p) ELSE {}

\* QueryCacher.clearSegmentCache(segmentInfo): redis.del of the video's derived keys,
\* a failure only logged
clearSegmentCache(w) ==
    {[w EXCEPT !.cache = <<>>]} \cup (IF redisFaulty THEN {w} ELSE {})

\* lines 589-594: after an applied vote clear the cache; unlock and return finalStatus
Finish(w, p) ==
    IF w.proc[p].applied
    THEN UNION {UnlockReturn(w1, p, 200) : w1 \in clearSegmentCache(w)}
    ELSE UnlockReturn(w, p, 200)

\* lines 469-534: read the previous vote, compute the increments
ReadVotesRow(w, p) ==
    LET l == w.proc[p]
        seg == l.segmentInfo[1]
        userID == userIDOf(l.paramUserID, l.UUID)
        row == GetRow(w.privateVotes, LAMBDA r : r.userID = userID /\ r.UUID = l.UUID)
        votesRow == IF row = <<>> THEN <<>> ELSE <<row[1].type>>
        known == l.type \in {Upvote, Downvote, Malicious, Undo}
        inc0 == CASE l.type = Upvote -> 1
                  [] l.type \in {Downvote, Malicious} -> -1
                  [] OTHER -> 0
        old == IF votesRow = <<>> THEN 0 ELSE OldIncrement(votesRow[1])
        priv == (l.isVIP \/ l.isTempVIP \/ l.isOwnSubmission) /\ inc0 < 0
        inc1 == IF priv THEN AmplifyPrivileged(seg.votes, old) ELSE inc0
        type1 == IF priv THEN inc1 ELSE l.type
        mal == type1 = Malicious
        inc2 == IF mal THEN AmplifyMalicious(seg.votes, old) ELSE inc1
        type2 == IF mal THEN inc2 ELSE type1
        l1 == [l EXCEPT !.votesRow = votesRow, !.incrementAmount = inc2,
                        !.oldIncrementAmount = old, !.type = type2]
    IN InTry(w, p)
       \cup
       (IF ~known
        THEN UnlockReturn(SetProc(w, p, [l EXCEPT !.votesRow = votesRow]), p, 400)
        ELSE IF l.isVIP \/ l.isTempVIP
        THEN {SetProc(w, p, [l1 EXCEPT !.ableToVote = TRUE, !.pc = "writeVotesRow"])}
        ELSE IF GateLocal(l1)
        THEN {SetProc(w, p, [l1 EXCEPT !.pc = "reputation"])}
        ELSE {SetProc(w, p, [l1 EXCEPT !.pc = "finish"])})

\* lines 535-540: the caller has a counted submission in the segment's category
Reputation_AnyCategory(w, p) ==
    LET l == w.proc[p]
        nonAnonUserID == nonAnonUserIDOf(l.paramUserID)
        found == \E u \in DOMAIN w.sponsorTimes :
                    LET r == w.sponsorTimes[u] IN
                    /\ r.userID = nonAnonUserID
                    /\ r.votes > -2 /\ r.hidden = 0 /\ r.shadowHidden = 0
    IN {At(w, p, IF found THEN "ipCheck" ELSE "finish")}
Reputation(w, p) ==
    LET l == w.proc[p]
        nonAnonUserID == nonAnonUserIDOf(l.paramUserID)
        found == \E u \in DOMAIN w.sponsorTimes :
                    LET r == w.sponsorTimes[u] IN
                    /\ r.userID = nonAnonUserID /\ r.category = l.segmentInfo[1].category
                    /\ r.votes > -2 /\ r.hidden = 0 /\ r.shadowHidden = 0
    IN InTry(w, p) \cup {At(w, p, IF found THEN "ipCheck" ELSE "finish")}

\* lines 541-546: no other user's vote on this segment carries this hashed IP
IpCheck(w, p) ==
    LET l == w.proc[p]
        userID == userIDOf(l.paramUserID, l.UUID)
        other == \E i \in 1..Len(w.privateVotes) :
                    LET r == w.privateVotes[i] IN
                    r.UUID = l.UUID /\ r.hashedIP = hashedIPOf(l.ip) /\ r.userID # userID
    IN InTry(w, p)
       \cup {IF other THEN At(w, p, "finish")
             ELSE SetProc(w, p, [l EXCEPT !.ableToVote = TRUE, !.pc = "writeVotesRow"])}

\* videoDurationChanged, lines 82-83 (an undefined API duration compares false)
videoDurationChanged(segmentDuration, APIDuration) ==
    /\ APIDuration # NoDetails
    /\ APIDuration > 0
    /\ MathAbs(segmentDuration - APIDuration) > 2

SetSegment(w, UUID, F(_)) == [w EXCEPT !.sponsorTimes[UUID] = F(@)]

\* lines 549-563: UPDATE the caller's row, or INSERT one
WriteVotesRow_AlwaysInsert(w, p) ==
    LET l == w.proc[p]
    IN {At([w EXCEPT !.privateVotes =
                Append(@, [UUID |-> l.UUID, userID |-> userIDOf(l.paramUserID, l.UUID),
                           hashedIP |-> hashedIPOf(l.ip), type |-> l.type,
                           normalUserID |-> nonAnonUserIDOf(l.paramUserID),
                           originalType |-> l.originalType])],
            p, "updateVotes")}
WriteVotesRow(w, p) ==
    LET l == w.proc[p]
        userID == userIDOf(l.paramUserID, l.UUID)
        updated == UpdateRows(w.privateVotes,
                              LAMBDA r : r.userID = userID /\ r.UUID = l.UUID,
                              LAMBDA r : [r EXCEPT !.type = l.type, !.originalType = l.originalType])
        inserted == Append(w.privateVotes,
                           [UUID |-> l.UUID, userID |-> userID, hashedIP |-> hashedIPOf(l.ip),
                            type |-> l.type, normalUserID |-> nonAnonUserIDOf(l.paramUserID),
                            originalType |-> l.originalType])
    IN InTry(w, p)
       \cup {At([w EXCEPT !.privateVotes = IF l.votesRow # <<>> THEN updated ELSE inserted],
                p, "updateVotes")}

\* lines 565-587: which tier-specific statement follows the counter update
AfterUpdateVotes(l) ==
    IF l.isTempVIP /\ l.incrementAmount > 0 /\ l.voteTypeEnum = normal THEN "tempVipUnhide"
    ELSE IF l.isVIP /\ l.incrementAmount > 0 /\ l.voteTypeEnum = normal THEN "durationRead"
    ELSE IF l.isVIP /\ l.incrementAmount <= 0 /\ l.voteTypeEnum = normal THEN "vipUnlock"
    ELSE "finish"

\* lines 565-569: UPDATE "sponsorTimes" SET "votes" = "votes" + ?
UpdateVotes_WritesReadValue(w, p) ==
    LET l == w.proc[p] IN
    {SetProc(SetSegment(w, l.UUID, LAMBDA r :
                [r EXCEPT !.votes = l.segmentInfo[1].votes
                                      + (l.incrementAmount - l.oldIncrementAmount)]),
             p, [l EXCEPT !.applied = TRUE, !.pc = AfterUpdateVotes(l)])}
UpdateVotes(w, p) ==
    LET l == w.proc[p] IN
    InTry(w, p)
    \cup {SetProc(SetSegment(w, l.UUID, LAMBDA r :
                     [r EXCEPT !.votes = @ + (l.incrementAmount - l.oldIncrementAmount)]),
                  p, [l EXCEPT !.applied = TRUE, !.pc = AfterUpdateVotes(l)])}

\* lines 571-574: a temp VIP brings a hidden segment back
TempVipUnhide(w, p) ==
    LET l == w.proc[p] IN
    InTry(w, p)
    \cup {At(SetSegment(w, l.UUID, LAMBDA r : [r EXCEPT !.hidden = 0]), p,
             IF l.isVIP THEN "durationRead" ELSE "finish")}

\* updateSegmentVideoDuration, lines 86-90: read the stored duration
DurationRead(w, p) ==
    LET l == w.proc[p] IN
    InTry(w, p)
    \cup {SetProc(w, p, [l EXCEPT !.pc = "durationUpdate",
                                  !.videoDuration = w.sponsorTimes[l.UUID].videoDuration])}

\* updateSegmentVideoDuration, lines 91-100: ask the API, store a changed duration
DurationUpdate(w, p) ==
    LET l == w.proc[p] IN
    InTry(w, p)
    \cup (IF ApiError \in apiAnswers THEN Catch(w, p) ELSE {})
    \cup {At(IF videoDurationChanged(l.videoDuration, api)
             THEN SetSegment(w, l.UUID, LAMBDA r : [r EXCEPT !.videoDuration = api])
             ELSE w, p, "vipLock") : api \in apiAnswers \ {ApiError}}

VipLock_OnlyUnhides(w, p) ==
    LET l == w.proc[p] IN
    InTry(w, p)
    \cup {At(SetSegment(w, l.UUID, LAMBDA r :
                [r EXCEPT !.hidden = 0, !.shadowHidden = 0]), p, "finish")}

\* lines 581-583: a VIP upvote locks and unhides
VipLock(w, p) ==
    LET l == w.proc[p] IN
    InTry(w, p)
    \cup {At(SetSegment(w, l.UUID, LAMBDA r :
                [r EXCEPT !.locked = 1, !.hidden = 0, !.shadowHidden = 0]), p, "finish")}

\* lines 585-587: a VIP downvote or undo unlocks
VipUnlock(w, p) ==
    LET l == w.proc[p] IN
    InTry(w, p)
    \cup {At(SetSegment(w, l.UUID, LAMBDA r : [r EXCEPT !.locked = 0]), p, "finish")}

(* ------------------- checkVideoDuration (not awaited) ------------------ *)
EndTask(w, b) == [w EXCEPT !.bg = @ \ {b}]
SetTask(w, b, b1) == [w EXCEPT !.bg = (@ \ {b}) \cup {b1}]

\* lines 104-114: read the segment, ask the API; no duration ends the check
CvdRead(w, b) ==
    (IF MayThrow \/ ApiError \in apiAnswers \/ NoDetails \in apiAnswers
     THEN {EndTask(w, b)} ELSE {})
    \cup {SetTask(w, b, [b EXCEPT !.pc = "cvdLatest", !.api = api])
          : api \in apiAnswers \ {ApiError, NoDetails}}

\* the rows the duration check looks at and hides, lines 120-123 and 133-135
Counted(r) ==
    /\ r.videoID = VideoID /\ r.hidden = 0 /\ r.shadowHidden = 0
    /\ r.actionType # "full" /\ r.votes > -2

\* lines 116-128: the latest counted submission with a known duration
CvdLatest(w, b) ==
    LET cand == {u \in DOMAIN w.sponsorTimes :
                    Counted(w.sponsorTimes[u]) /\ w.sponsorTimes[u].videoDuration # 0}
        latest == CHOOSE u \in cand : \A v \in cand :
                    w.sponsorTimes[v].timeSubmitted <= w.sponsorTimes[u].timeSubmitted
    IN (IF MayThrow THEN {EndTask(w, b)} ELSE {})
       \cup {IF cand # {} /\ videoDurationChanged(w.sponsorTimes[latest].videoDuration, b.api)
             THEN SetTask(w, b, [b EXCEPT !.pc = "cvdHide",
                                          !.timeSubmitted = w.sponsorTimes[latest].timeSubmitted])
             ELSE EndTask(w, b)}

\* lines 130-138: hide the submissions up to the latest, start deleteLockCategories
CvdHide(w, b) ==
    (IF MayThrow THEN {EndTask(w, b)} ELSE {})
    \cup {SetTask([w EXCEPT !.sponsorTimes = [u \in DOMAIN @ |->
                        IF Counted(@[u]) /\ @[u].timeSubmitted <= b.timeSubmitted
                        THEN [@[u] EXCEPT !.hidden = 1] ELSE @[u]]],
                  b, [b EXCEPT !.pc = "deleteLockCategories"])}

\* deleteLockCategories(videoID, null, null, service): every lock record of the video
deleteLockCategories(w, b) ==
    (IF MayThrow THEN {EndTask(w, b)} ELSE {})
    \cup {EndTask([w EXCEPT !.lockCategories = {r \in @ : r.videoID # VideoID}], b)}

(* ---------- QueryCacher.get under getSegmentsFromDBByVideoID ----------- *)
\* skipSegment.ts, lines 26-37: a request for the video's segments starts a read-through
getSegmentsFromDBByVideoID(w) ==
    [w EXCEPT !.calls = @ + 1,
              !.bg = @ \cup {[id |-> w.calls, pc |-> "getReply", data |-> <<>>]}]

\* queryCacher.ts, lines 21-32: a reply under the key ends the read
GetReply(w, b) ==
    IF redisEnabled /\ w.cache # <<>> THEN EndTask(w, b)
    ELSE SetTask(w, b, [b EXCEPT !.pc = "getFetch"])

\* line 34: data = await fetchFromDB()
GetFetch(w, b) == SetTask(w, b, [b EXCEPT !.pc = "getSet", !.data = <<w.sponsorTimes>>])

\* lines 36-42: the data is stored under the key, a failure only logged
GetSet(w, b) ==
    {EndTask([w EXCEPT !.cache = IF redisEnabled THEN b.data ELSE @], b)}
    \cup (IF redisFaulty THEN {EndTask(w, b)} ELSE {})

(* ----------------------------- categoryVote ---------------------------- *)
CvThrow(w, p) == IF MayThrow THEN {Throw(w, p)} ELSE {}
voteAmount(l) == IF l.isVIP \/ l.isTempVIP THEN 500 ELSE 1

\* lines 152-163: select count(*) as votes, category ... group by category (one group)
CvLastVote(w, p) ==
    LET l == w.proc[p]
        mine == {i \in 1..Len(w.privateCategoryVotes) :
                    /\ w.privateCategoryVotes[i].UUID = l.UUID
                    /\ w.privateCategoryVotes[i].userID = nonAnonUserIDOf(l.paramUserID)}
        groups == {w.privateCategoryVotes[i].category : i \in mine}
        info(c) == [votes |-> Cardinality({i \in mine : w.privateCategoryVotes[i].category = c}),
                    category |-> c]
        go(last) == IF last # <<>> /\ last[1].category = l.category
                    THEN Return(w, p, 200)
                    ELSE SetProc(w, p, [l EXCEPT !.usersLastVoteInfo = last, !.pc = "cvSegment"])
    IN CvThrow(w, p)
       \cup (IF groups = {} THEN {go(<<>>)} ELSE {go(<<info(c)>>) : c \in groups})

\* lines 165-185: the segment, the category checks
CvSegment(w, p) ==
    LET l == w.proc[p]
        seg == w.sponsorTimes[l.UUID]
    IN CvThrow(w, p)
       \cup
       {IF seg.actionType \notin categorySupport(l.category) \/ seg.actionType = "full"
        THEN Return(SetProc(w, p, [l EXCEPT !.message = <<"Not allowed to change to",
                                        l.category, "when for segment of type", seg.actionType>>]),
                    p, 400)
        ELSE IF l.category \notin categoryList
        THEN Return(SetProc(w, p, [l EXCEPT !.message = <<"Category doesn't exist.">>]), p, 400)
        ELSE SetProc(w, p, [l EXCEPT !.catSegmentInfo = <<seg>>, !.pc = "cvNextLocked"])}

\* lines 187-201: a locked candidate category or a locked segment ends a non-VIP's vote
CvNextLocked_IgnoresSegmentLock(w, p) ==
    LET l == w.proc[p]
        nextCategoryLocked == \E r \in w.lockCategories :
                                 r.videoID = l.catSegmentInfo[1].videoID /\ r.category = l.category
    IN {IF nextCategoryLocked /\ ~l.isVIP THEN Return(w, p, 200) ELSE At(w, p, "cvNextInfo")}
CvNextLocked_SubmitterPasses(w, p) ==
    LET l == w.proc[p]
        seg == l.catSegmentInfo[1]
        exempt == l.isVIP \/ l.isOwnSubmission
        nextCategoryLocked == \E r \in w.lockCategories :
                                 r.videoID = seg.videoID /\ r.category = l.category
    IN {IF nextCategoryLocked /\ ~exempt THEN Return(w, p, 200)
        ELSE IF ~exempt /\ seg.locked = 1 THEN Return(w, p, 200)
        ELSE At(w, p, "cvNextInfo")}
CvNextLocked(w, p) ==
    LET l == w.proc[p]
        seg == l.catSegmentInfo[1]
        nextCategoryLocked == \E r \in w.lockCategories :
                                 r.videoID = seg.videoID /\ r.category = l.category
    IN CvThrow(w, p)
       \cup {IF nextCategoryLocked /\ ~l.isVIP THEN Return(w, p, 200)
             ELSE IF ~l.isVIP /\ seg.locked = 1 THEN Return(w, p, 200)
             ELSE At(w, p, "cvNextInfo")}

AggregateRow(w, UUID, category) ==
    GetRow(w.categoryVotes, LAMBDA r : r.UUID = UUID /\ r.category = category)

\* lines 203-208: the candidate's aggregate before the vote
CvNextInfo(w, p) ==
    LET l == w.proc[p] IN
    CvThrow(w, p)
    \cup {SetProc(w, p, [l EXCEPT !.nextCategoryInfo = AggregateRow(w, l.UUID, l.category),
                                  !.pc = "cvCount"])}

\* lines 217-219: is there an aggregate row of the candidate
CvCount(w, p) ==
    LET l == w.proc[p] IN
    CvThrow(w, p)
    \cup {At(w, p, IF AggregateRow(w, l.UUID, l.category) # <<>> THEN "cvUpdate" ELSE "cvInsert")}

AddToAggregate(w, UUID, category, n) ==
    [w EXCEPT !.categoryVotes = UpdateRows(@, LAMBDA r : r.UUID = UUID /\ r.category = category,
                                              LAMBDA r : [r EXCEPT !.votes = @ + n])]
AfterAdd(l) ==
    IF l.usersLastVoteInfo # <<>> /\ l.usersLastVoteInfo[1].votes > 0
    THEN "cvReverse" ELSE "cvInsertPrivate"

\* lines 221-226
CvUpdate(w, p) ==
    LET l == w.proc[p] IN
    CvThrow(w, p) \cup {At(AddToAggregate(w, l.UUID, l.category, voteAmount(l)), p, AfterAdd(l))}

\* lines 228-233
CvInsert(w, p) ==
    LET l == w.proc[p] IN
    CvThrow(w, p)
    \cup {At([w EXCEPT !.categoryVotes = Append(@, [UUID |-> l.UUID, category |-> l.category,
                                                    votes |-> voteAmount(l)])],
             p, AfterAdd(l))}

\* lines 238-243: take the weight back from the previous choice
CvReverse(w, p) ==
    LET l == w.proc[p] IN
    CvThrow(w, p)
    \cup {At(AddToAggregate(w, l.UUID, l.usersLastVoteInfo[1].category, -voteAmount(l)),
             p, "cvMovePrivate")}

\* lines 245-249
CvMovePrivate(w, p) ==
    LET l == w.proc[p] IN
    CvThrow(w, p)
    \cup {At([w EXCEPT !.privateCategoryVotes = UpdateRows(@,
                    LAMBDA r : r.userID = nonAnonUserIDOf(l.paramUserID) /\ r.UUID = l.UUID,
                    LAMBDA r : [r EXCEPT !.category = l.category, !.hashedIP = hashedIPOf(l.ip)])],
             p, "cvCurrent")}

\* lines 251-255
CvInsertPrivate(w, p) ==
    LET l == w.proc[p] IN
    CvThrow(w, p)
    \cup {At([w EXCEPT !.privateCategoryVotes = Append(@,
                    [UUID |-> l.UUID, userID |-> nonAnonUserIDOf(l.paramUserID),
                     hashedIP |-> hashedIPOf(l.ip), category |-> l.category])],
             p, "cvCurrent")}

\* lines 259-277: the current category's aggregate, then the submission
CvCurrent(w, p) ==
    LET l == w.proc[p] IN
    CvThrow(w, p)
    \cup {SetProc(w, p, [l EXCEPT
              !.currentCategoryInfo = AggregateRow(w, l.UUID, l.catSegmentInfo[1].category),
              !.pc = "cvSubmission"])}

startingVotes(submissionInfo) == IF isUserVIP(submissionInfo.userID) THEN 10000 ELSE 1
currentCategoryCount(l) ==
    IF l.currentCategoryInfo # <<>> THEN l.currentCategoryInfo[1].votes
    ELSE startingVotes(l.submissionInfo[1])
\* (nextCategoryInfo?.votes || 0) + voteAmount
nextCategoryCount(l) ==
    (IF l.nextCategoryInfo # <<>> THEN l.nextCategoryInfo[1].votes ELSE 0) + voteAmount(l)

\* lines 297-302: who may replace the category
ReadyToChange_ByOne(l) ==
    \/ l.isVIP
    \/ l.isTempVIP
    \/ l.isOwnSubmission
    \/ nextCategoryCount(l) - currentCategoryCount(l) >= 1
ReadyToChange_SubmitterCounts(l) ==
    \/ l.isVIP
    \/ l.isTempVIP
    \/ nextCategoryCount(l) - currentCategoryCount(l)
         >= MathMax(CeilHalf(l.submissionInfo[1].votes), 2)
ReadyToChange(l) ==
    \/ l.isVIP
    \/ l.isTempVIP
    \/ l.isOwnSubmission
    \/ nextCategoryCount(l) - currentCategoryCount(l)
         >= MathMax(CeilHalf(l.submissionInfo[1].votes), 2)

AfterSeed(l) == IF ReadyToChange(l) THEN "cvReplace" ELSE "cvDone"

\* lines 266-280
CvSubmission(w, p) ==
    LET l == w.proc[p]
        l1 == [l EXCEPT !.submissionInfo = <<w.sponsorTimes[l.UUID]>>]
    IN CvThrow(w, p)
       \cup {SetProc(w, p, [l1 EXCEPT !.pc = IF l.currentCategoryInfo = <<>> THEN "cvSeed"
                                            ELSE AfterSeed(l1)])}

\* lines 281-285: the submission counts as a vote for the current category
CvSeed(w, p) ==
    LET l == w.proc[p] IN
    CvThrow(w, p)
    \cup {At([w EXCEPT !.categoryVotes = Append(@,
                    [UUID |-> l.UUID, category |-> l.catSegmentInfo[1].category,
                     votes |-> currentCategoryCount(l)])],
             p, "cvSeedPrivate")}

\* lines 286-290
CvSeedPrivate(w, p) ==
    LET l == w.proc[p] IN
    CvThrow(w, p)
    \cup {At([w EXCEPT !.privateCategoryVotes = Append(@,
                    [UUID |-> l.UUID, userID |-> l.submissionInfo[1].userID,
                     hashedIP |-> <<"unknown">>, category |-> l.catSegmentInfo[1].category])],
             p, AfterSeed(l))}

\* line 304: update "sponsorTimes" set "category" = ?
CvReplace(w, p) ==
    LET l == w.proc[p] IN
    CvThrow(w, p)
    \cup {At(SetSegment(w, l.UUID, LAMBDA r : [r EXCEPT !.category = l.category]), p, "cvDone")}

\* lines 307-308
CvDone(w, p) == {Return(w1, p, 200) : w1 \in clearSegmentCache(w)}

(* ------------------------------ actions -------------------------------- *)
\* a request slot whose vote() has returned or thrown, or that never ran one
Ended(w, p) == w.proc[p].pc \in {"idle", "done", "thrown"}
Idle == \A p \in Procs : Ended(World, p)

\* a request arrives: vote() runs to its first await on the store
StartWithin(n, p, ip, UUID, paramUserID, type, category) ==
    /\ calls < n
    /\ Ended(World, p)
    /\ \E w \in VoteStart(World, p, ip, UUID, paramUserID, type, category) : Install(w)
Start(p, ip, UUID, paramUserID, type, category) ==
    StartWithin(MaxCalls, p, ip, UUID, paramUserID, type, category)

\* vote() resumes after the await it is at
Resume(p, pc, Step(_, _)) ==
    /\ proc[p].pc = pc
    /\ \E w \in Step(World, p) : Install(w)

DoLoadSegment(p) == Resume(p, "loadSegment", LoadSegment)
DoChecks(p) == Resume(p, "checks", Checks)
DoLockCheck(p) == Resume(p, "lockCheck", LockCheck)
DoReadVotesRow(p) == Resume(p, "readVotesRow", ReadVotesRow)
DoReputation(p) == Resume(p, "reputation", Reputation)
DoIpCheck(p) == Resume(p, "ipCheck", IpCheck)
DoWriteVotesRow(p) == Resume(p, "writeVotesRow", WriteVotesRow)
DoUpdateVotes(p) == Resume(p, "updateVotes", UpdateVotes)
DoTempVipUnhide(p) == Resume(p, "tempVipUnhide", TempVipUnhide)
DoDurationRead(p) == Resume(p, "durationRead", DurationRead)
DoDurationUpdate(p) == Resume(p, "durationUpdate", DurationUpdate)
DoVipLock(p) == Resume(p, "vipLock", VipLock)
DoVipUnlock(p) == Resume(p, "vipUnlock", VipUnlock)
DoFinish(p) == Resume(p, "finish", Finish)

\* the steps every numeric vote can take
NumericSteps(p) ==
    \/ DoLoadSegment(p)
    \/ DoChecks(p)
    \/ DoLockCheck(p)
    \/ DoReadVotesRow(p)
    \/ DoReputation(p)
    \/ DoIpCheck(p)
    \/ DoWriteVotesRow(p)
    \/ DoUpdateVotes(p)
    \/ DoFinish(p)

\* the extra statements of a temp VIP's and a VIP's applied vote
PrivilegedSteps(p) ==
    \/ DoTempVipUnhide(p)
    \/ DoDurationRead(p)
    \/ DoDurationUpdate(p)
    \/ DoVipLock(p)
    \/ DoVipUnlock(p)

DoCvLastVote(p) == Resume(p, "cvLastVote", CvLastVote)
DoCvSegment(p) == Resume(p, "cvSegment", CvSegment)
DoCvNextLocked(p) == Resume(p, "cvNextLocked", CvNextLocked)
DoCvNextInfo(p) == Resume(p, "cvNextInfo", CvNextInfo)
DoCvCount(p) == Resume(p, "cvCount", CvCount)
DoCvUpdate(p) == Resume(p, "cvUpdate", CvUpdate)
DoCvInsert(p) == Resume(p, "cvInsert", CvInsert)
DoCvReverse(p) == Resume(p, "cvReverse", CvReverse)
DoCvMovePrivate(p) == Resume(p, "cvMovePrivate", CvMovePrivate)
DoCvInsertPrivate(p) == Resume(p, "cvInsertPrivate", CvInsertPrivate)
DoCvCurrent(p) == Resume(p, "cvCurrent", CvCurrent)
DoCvSubmission(p) == Resume(p, "cvSubmission", CvSubmission)
DoCvSeed(p) == Resume(p, "cvSeed", CvSeed)
DoCvSeedPrivate(p) == Resume(p, "cvSeedPrivate", CvSeedPrivate)
DoCvReplace(p) == Resume(p, "cvReplace", CvReplace)
DoCvDone(p) == Resume(p, "cvDone", CvDone)

\* the steps of categoryVote
CategorySteps(p) ==
    \/ DoCvLastVote(p)
    \/ DoCvSegment(p)
    \/ DoCvNextLocked(p)
    \/ DoCvNextInfo(p)
    \/ DoCvCount(p)
    \/ DoCvUpdate(p)
    \/ DoCvInsert(p)
    \/ DoCvReverse(p)
    \/ DoCvMovePrivate(p)
    \/ DoCvInsertPrivate(p)
    \/ DoCvCurrent(p)
    \/ DoCvSubmission(p)
    \/ DoCvSeed(p)
    \/ DoCvSeedPrivate(p)
    \/ DoCvReplace(p)
    \/ DoCvDone(p)

\* a reader asks for the segments of the video; its read-through advances on its own
ReadStarts == calls < MaxCalls + 1 /\ Install(getSegmentsFromDBByVideoID(World))
ReadGetReply == \E b \in bg : b.pc = "getReply" /\ Install(GetReply(World, b))
ReadGetFetch == \E b \in bg : b.pc = "getFetch" /\ Install(GetFetch(World, b))
ReadGetSet == \E b \in bg : b.pc = "getSet" /\ \E w \in GetSet(World, b) : Install(w)

\* the lease of a running call's lock runs out
LeaseExpires ==
    \E p \in Procs :
        /\ ~Ended(World, p) /\ proc[p].held /\ proc[p].lock = "set"
        /\ lockKey(proc[p].UUID, proc[p].paramUserID) \in redis
        /\ Install(expire(World, p))

\* the detached tasks advance on their own
CheckVideoDurationRead ==
    \E b \in bg : b.pc = "cvdRead" /\ \E w \in CvdRead(World, b) : Install(w)
CheckVideoDurationLatest ==
    \E b \in bg : b.pc = "cvdLatest" /\ \E w \in CvdLatest(World, b) : Install(w)
CheckVideoDurationHide ==
    \E b \in bg : b.pc = "cvdHide" /\ \E w \in CvdHide(World, b) : Install(w)
DeleteLockCategories ==
    \E b \in bg : b.pc = "deleteLockCategories" /\ \E w \in deleteLockCategories(World, b) : Install(w)
\* QueryCacher.get: a reader finds the keys absent and stores what the store holds now
CacheFill ==
    /\ redisEnabled
    /\ cache = <<>>
    /\ Install([World EXCEPT !.cache = <<sponsorTimes>>])

Tasks ==
    \/ CheckVideoDurationRead
    \/ CheckVideoDurationLatest
    \/ CheckVideoDurationHide
    \/ DeleteLockCategories

(* --------------------------- initial states ---------------------------- *)
Segment(userID, category, actionType, votes, locked, hidden, timeSubmitted) ==
    [videoID |-> VideoID, userID |-> userID, category |-> category, actionType |-> actionType,
     votes |-> votes, locked |-> locked, hidden |-> hidden, shadowHidden |-> 0,
     videoDuration |-> 10, timeSubmitted |-> timeSubmitted]

\* s1 is the segment voted on, submitted by u3; s2 and s3 are submissions of u4 and u5
\* to the same video and category; u1 (the VIP), u2 (the temp VIP) and u6 submitted nothing
Segments(category, actionType, votes, locked, hidden) ==
    [u \in UUIDs |->
        CASE u = "s1" -> Segment(getHashCache("u3"), category, actionType, votes, locked, hidden, 3)
          [] u = "s2" -> Segment(getHashCache("u4"), category, actionType, 0, 0, 0, 1)
          [] u = "s3" -> Segment(getHashCache("u5"), category, actionType, 0, 0, 0, 2)]

CategoryOf(actionType) == IF actionType = "chapter" THEN "chapter" ELSE "sponsor"

InitStores(segs) ==
    /\ sponsorTimes = segs
    /\ start = segs
    /\ privateVotes = <<>>
    /\ categoryVotes = <<>>
    /\ privateCategoryVotes = <<>>
    /\ redis = {}
    /\ proc = [p \in Procs |-> IdleLocal]
    /\ bg = {}
    /\ calls = 0
    /\ log = <<>>
    /\ cache = <<>>

WarningAt(u, reason, issueTime) ==
    [userID |-> getHashCache(u), issueTime |-> issueTime, enabled |-> 1, type |-> 0,
     reason |-> reason]
Warning(u, reason) == WarningAt(u, reason, now - 1)

VoteRange == (-VotesBelow)..VotesAbove

(* ---- one user's numeric votes on s1, for every tier and starting count ---- *)
InitNumeric ==
    /\ \E a \in {"skip", "chapter"}, v \in VoteRange :
           InitStores(Segments(CategoryOf(a), a, v, 0, 0))
    /\ lockCategories = {}
    /\ vips = {getHashCache("u1")}
    /\ tempVips = {<<getHashCache("u2"), VideoID>>}
    /\ banned = {}
    /\ warnings = <<>>
    /\ redisEnabled = TRUE
    /\ redisFaulty = FALSE
    /\ dbFaulty = FALSE
    /\ apiAnswers = {NoDetails, 20}
    /\ callers \in {{"u1"}, {"u2"}, {"u3"}, {"u4"}}

NextNumeric ==
    \/ \E u \in callers, t \in {Downvote, Upvote, Undo, Malicious} :
           Idle /\ Start("p1", "ipX", "s1", u, t, "")
    \/ NumericSteps("p1")
    \/ PrivilegedSteps("p1")
    \/ Tasks

SpecNumeric == InitNumeric /\ [][NextNumeric]_vars

(* ---- two requests of one user for one segment, interleaved at every await ---- *)
InitSameUser ==
    /\ \E v \in {-2, 0} : InitStores(Segments("sponsor", "skip", v, 0, 0))
    /\ lockCategories = {}
    /\ vips = {getHashCache("u1")}
    /\ tempVips = {<<getHashCache("u2"), VideoID>>}
    /\ banned = {}
    /\ warnings = <<>>
    /\ redisEnabled \in BOOLEAN
    /\ redisFaulty = FALSE
    /\ dbFaulty = FALSE
    /\ apiAnswers = {NoDetails, 20}
    /\ callers \in {{"u1"}, {"u2"}, {"u4"}}

NextSameUser ==
    \/ \E p \in Procs, u \in callers, t \in {Downvote, Upvote} :
           proc[p].pc = "idle" /\ Start(p, "ipX", "s1", u, t, "")
    \/ \E p \in Procs : NumericSteps(p)
    \/ \E p \in Procs : PrivilegedSteps(p)
    \/ Tasks

SpecSameUser == InitSameUser /\ [][NextSameUser]_vars

(* ---- numeric and category votes, one at a time, over a failing store ---- *)
InitFaults ==
    /\ \E v \in {-2, 0} : InitStores(Segments("sponsor", "skip", v, 0, 0))
    /\ lockCategories = {}
    /\ vips = {getHashCache("u1")}
    /\ tempVips = {<<getHashCache("u2"), VideoID>>}
    /\ banned = {}
    /\ warnings = <<>>
    /\ redisEnabled = TRUE
    /\ redisFaulty = FALSE
    /\ dbFaulty = TRUE
    /\ apiAnswers = {NoDetails, 20}
    /\ callers \in {{"u1"}, {"u2"}, {"u4"}}

NextFaults ==
    \/ \E u \in callers, t \in {Downvote, Upvote} :
           Idle /\ Start("p1", "ipX", "s1", u, t, "")
    \/ \E u \in callers, c \in {"intro", "sponsor"} :
           Idle /\ Start("p1", "ipX", "s1", u, TypeUndefined, c)
    \/ NumericSteps("p1")
    \/ PrivilegedSteps("p1")
    \/ CategorySteps("p1")
    \/ Tasks

SpecFaults == InitFaults /\ [][NextFaults]_vars

(* ---- the submitter of s1 votes on it, one call at a time ---- *)
InitOwnVote ==
    /\ \E a \in {"skip", "chapter"}, v \in {-3, 0, 2}, k \in {0, 1} :
           InitStores(Segments(CategoryOf(a), a, v, k, 0))
    /\ lockCategories = {}
    /\ vips \in {{getHashCache("u1")}, {getHashCache("u1"), getHashCache("u3")}}
    /\ tempVips \in {{<<getHashCache("u2"), VideoID>>},
                     {<<getHashCache("u2"), VideoID>>, <<getHashCache("u3"), VideoID>>}}
    /\ banned \in {{}, {<<"userID", getHashCache("u3")>>}}
    /\ warnings \in {<<>>, <<Warning("u3", "tip")>>}
    /\ redisEnabled = TRUE
    /\ redisFaulty = FALSE
    /\ dbFaulty = FALSE
    /\ apiAnswers = {NoDetails, 20}
    /\ callers = {"u3"}

NextOwnVote ==
    \/ \E t \in {Downvote, Upvote, Undo, Malicious} :
           Idle /\ Start("p1", "ipX", "s1", "u3", t, "")
    \/ NumericSteps("p1")
    \/ PrivilegedSteps("p1")
    \/ Tasks

SpecOwnVote == InitOwnVote /\ [][NextOwnVote]_vars

(* ---- the regular users u4 and u5 vote on s1 from two addresses, one call at a time ---- *)
InitSharedIP ==
    /\ InitStores(Segments("sponsor", "skip", 0, 0, 0))
    /\ lockCategories = {}
    /\ vips = {getHashCache("u1")}
    /\ tempVips = {<<getHashCache("u2"), VideoID>>}
    /\ banned = {}
    /\ warnings = <<>>
    /\ redisEnabled = TRUE
    /\ redisFaulty = FALSE
    /\ dbFaulty = FALSE
    /\ apiAnswers = {NoDetails, 20}
    /\ callers = {"u4", "u5"}

NextSharedIP ==
    \/ \E u \in callers, ip \in IPs, t \in {Downvote, Upvote} :
           Idle /\ StartWithin(MaxCalls + 1, "p1", ip, "s1", u, t, "")
    \/ NumericSteps("p1")
    \/ Tasks

SpecSharedIP == InitSharedIP /\ [][NextSharedIP]_vars

(* ---- category votes on s1, one call at a time ---- *)
InitCategory ==
    /\ \E v \in {-3, 0, 4} : InitStores(Segments("sponsor", "skip", v, 0, 0))
    /\ lockCategories = {}
    /\ vips \in {{getHashCache("u1")}, {getHashCache("u1"), getHashCache("u3")}}
    /\ tempVips = {<<getHashCache("u2"), VideoID>>}
    /\ banned = {}
    /\ warnings = <<>>
    /\ redisEnabled = TRUE
    /\ redisFaulty = FALSE
    /\ dbFaulty = FALSE
    /\ apiAnswers = {NoDetails}
    /\ callers \in {{"u4", "u5", "u6"}, {"u1", "u4"}, {"u2", "u4"}, {"u3", "u4"}}

NextCategory ==
    \/ \E u \in callers, c \in {"intro", "sponsor"} :
           Idle /\ StartWithin(MaxCalls + 1, "p1", "ipX", "s1", u, TypeUndefined, c)
    \/ DoLoadSegment("p1")
    \/ DoChecks("p1")
    \/ CategorySteps("p1")

SpecCategory == InitCategory /\ [][NextCategory]_vars

(* ---- numeric and category votes on a locked s1, one call at a time ---- *)
InitLocked ==
    /\ \E h \in {0, 1} : InitStores(Segments("sponsor", "skip", 0, 1, h))
    /\ lockCategories = {}
    /\ vips = {getHashCache("u1")}
    /\ tempVips = {<<getHashCache("u2"), VideoID>>}
    /\ banned = {}
    /\ warnings = <<>>
    /\ redisEnabled = TRUE
    /\ redisFaulty = FALSE
    /\ dbFaulty = FALSE
    /\ apiAnswers = {NoDetails, 20}
    /\ callers \in {{"u2"}, {"u3"}, {"u4"}, {"u1", "u4"}}

NextLocked ==
    \/ \E u \in callers, t \in {Downvote, Upvote} :
           Idle /\ Start("p1", "ipX", "s1", u, t, "")
    \/ \E u \in callers, c \in {"intro", "sponsor"} :
           Idle /\ Start("p1", "ipX", "s1", u, TypeUndefined, c)
    \/ NumericSteps("p1")
    \/ PrivilegedSteps("p1")
    \/ CategorySteps("p1")
    \/ Tasks

SpecLocked == InitLocked /\ [][NextLocked]_vars

(* ---- u4 has two active warnings, or one that has expired; u3 has none ---- *)
InitWarned ==
    /\ InitStores(Segments("sponsor", "skip", 0, 0, 0))
    /\ lockCategories = {}
    /\ vips = {getHashCache("u1")}
    /\ tempVips = {<<getHashCache("u2"), VideoID>>}
    /\ banned = {}
    /\ warnings \in {<<WarningAt("u4", "older tip", now - 2), WarningAt("u4", "latest tip", now - 1)>>,
                     <<WarningAt("u4", "expired tip",
                                 now - hoursAfterWarningExpires * MILLISECONDS_IN_HOUR)>>}
    /\ redisEnabled = TRUE
    /\ redisFaulty = FALSE
    /\ dbFaulty = FALSE
    /\ apiAnswers = {NoDetails, 20}
    /\ callers \in {{"u4"}, {"u3"}}

NextWarned ==
    \/ \E u \in callers, t \in {Downvote, Upvote} : Idle /\ Start("p1", "ipX", "s1", u, t, "")
    \/ \E u \in callers, c \in {"intro", "sponsor"} :
           Idle /\ StartWithin(MaxCalls + 1, "p1", "ipX", "s1", u, TypeUndefined, c)
    \/ NumericSteps("p1")
    \/ CategorySteps("p1")
    \/ Tasks

SpecWarned == InitWarned /\ [][NextWarned]_vars

(* ---- u4 is banned by user id, u5 votes from a banned address, u3 is not banned ---- *)
InitBanned ==
    /\ InitStores(Segments("sponsor", "skip", 0, 0, 0))
    /\ lockCategories = {}
    /\ vips = {getHashCache("u1")}
    /\ tempVips = {<<getHashCache("u2"), VideoID>>}
    /\ banned = {<<"userID", getHashCache("u4")>>, <<"hashedIP", hashedIPOf("ipY")>>}
    /\ warnings = <<>>
    /\ redisEnabled = TRUE
    /\ redisFaulty = FALSE
    /\ dbFaulty = FALSE
    /\ apiAnswers = {NoDetails, 20}
    /\ callers \in {{"u4"}, {"u5"}, {"u3"}}

AddressOf(u) == IF u = "u5" THEN "ipY" ELSE "ipX"

NextBanned ==
    \/ \E u \in callers, UUID \in {"s1", "s0"}, t \in {Downvote, Upvote, 10} :
           Idle /\ Start("p1", AddressOf(u), UUID, u, t, "")
    \/ \E u \in callers, c \in {"intro", "sponsor"} :
           Idle /\ StartWithin(MaxCalls + 1, "p1", AddressOf(u), "s1", u, TypeUndefined, c)
    \/ NumericSteps("p1")
    \/ CategorySteps("p1")
    \/ Tasks

SpecBanned == InitBanned /\ [][NextBanned]_vars

(* ---- u4 sends votes that are turned down: unknown type, dead segment, no segment, busy ---- *)
InitRejected ==
    /\ \E v \in {0, -2} : InitStores(Segments("sponsor", "skip", v, 0, 0))
    /\ lockCategories = {}
    /\ vips = {getHashCache("u1")}
    /\ tempVips = {<<getHashCache("u2"), VideoID>>}
    /\ banned = {}
    /\ warnings = <<>>
    /\ redisEnabled = TRUE
    /\ redisFaulty = FALSE
    /\ dbFaulty = FALSE
    /\ apiAnswers = {NoDetails, 20}
    /\ callers = {"u4"}

NextRejected ==
    \/ \E p \in Procs, UUID \in {"s1", "s0"}, t \in {-1, Downvote, Upvote} :
           proc[p].pc = "idle" /\ Start(p, "ipX", UUID, "u4", t, "")
    \/ \E p \in Procs : NumericSteps(p)
    \/ Tasks

SpecRejected == InitRejected /\ [][NextRejected]_vars

(* ---- u4 votes twice at once while the lock backend is off or failing ---- *)
InitLockBackend ==
    /\ InitStores(Segments("sponsor", "skip", 0, 0, 0))
    /\ lockCategories = {}
    /\ vips = {getHashCache("u1")}
    /\ tempVips = {<<getHashCache("u2"), VideoID>>}
    /\ banned = {}
    /\ warnings = <<>>
    /\ redisEnabled \in BOOLEAN
    /\ redisFaulty = redisEnabled
    /\ dbFaulty = FALSE
    /\ apiAnswers = {NoDetails, 20}
    /\ callers = {"u4"}

NextLockBackend ==
    \/ \E p \in Procs, t \in {Downvote, Upvote} :
           proc[p].pc = "idle" /\ Start(p, "ipX", "s1", "u4", t, "")
    \/ \E p \in Procs : NumericSteps(p)
    \/ Tasks

SpecLockBackend == InitLockBackend /\ [][NextLockBackend]_vars

(* ---- votes, one at a time, while readers fill the segment cache ---- *)
InitCache ==
    /\ InitStores(Segments("sponsor", "skip", 0, 0, 0))
    /\ lockCategories = {}
    /\ vips = {getHashCache("u1")}
    /\ tempVips = {<<getHashCache("u2"), VideoID>>}
    /\ banned = {}
    /\ warnings = <<>>
    /\ redisEnabled = TRUE
    /\ redisFaulty = FALSE
    /\ dbFaulty \in BOOLEAN
    /\ apiAnswers = {NoDetails, 20}
    /\ callers \in {{"u1"}, {"u2"}, {"u4"}}

NextCache ==
    \/ \E u \in callers, t \in {Downvote, Upvote} : Idle /\ Start("p1", "ipX", "s1", u, t, "")
    \/ \E u \in callers, c \in {"intro", "sponsor"} :
           Idle /\ Start("p1", "ipX", "s1", u, TypeUndefined, c)
    \/ NumericSteps("p1")
    \/ PrivilegedSteps("p1")
    \/ CategorySteps("p1")
    \/ Tasks
    \/ CacheFill

SpecCache == InitCache /\ [][NextCache]_vars

(* ---- votes over a healthy store while cache deletes and duration lookups may fail ---- *)
InitLookups ==
    /\ InitStores(Segments("sponsor", "skip", 0, 0, 0))
    /\ lockCategories = {}
    /\ vips = {getHashCache("u1")}
    /\ tempVips = {<<getHashCache("u2"), VideoID>>}
    /\ banned = {}
    /\ warnings = <<>>
    /\ redisEnabled = TRUE
    /\ redisFaulty = TRUE
    /\ dbFaulty = FALSE
    /\ apiAnswers = {ApiError, NoDetails, 20}
    /\ callers \in {{"u1"}, {"u2"}, {"u4"}}

NextLookups ==
    \/ \E u \in callers, t \in {Downvote, Upvote} : Idle /\ Start("p1", "ipX", "s1", u, t, "")
    \/ NumericSteps("p1")
    \/ PrivilegedSteps("p1")
    \/ Tasks
    \/ CacheFill

SpecLookups == InitLookups /\ [][NextLookups]_vars

(* ---- requests with a user id below the minimum length arrive while u4 votes ---- *)
InitShortID ==
    /\ InitStores(Segments("sponsor", "skip", 0, 0, 0))
    /\ lockCategories = {}
    /\ vips = {getHashCache("u1")}
    /\ tempVips = {<<getHashCache("u2"), VideoID>>}
    /\ banned = {}
    /\ warnings = <<>>
    /\ redisEnabled = TRUE
    /\ redisFaulty = FALSE
    /\ dbFaulty = FALSE
    /\ apiAnswers = {NoDetails, 20}
    /\ callers = {"tiny", "u4"}

NextShortID ==
    \/ \E t \in {Downvote, Upvote} : Start("p1", "ipX", "s1", "u4", t, "")
    \/ \E UUID \in {"s1", "s0", ""}, t \in {Downvote, 10, TypeUndefined}, c \in {"", "intro"} :
           Start("p2", "ipY", UUID, "tiny", t, c)
    \/ NumericSteps("p1")
    \/ Tasks

SpecShortID == InitShortID /\ [][NextShortID]_vars

(* ---- one user sends two category votes on one segment at the same time ---- *)
InitCategoryPair ==
    /\ InitStores(Segments("sponsor", "skip", 0, 0, 0))
    /\ lockCategories = {}
    /\ vips = {getHashCache("u1")}
    /\ tempVips = {<<getHashCache("u2"), VideoID>>}
    /\ banned = {}
    /\ warnings = <<>>
    /\ redisEnabled = TRUE
    /\ redisFaulty = FALSE
    /\ dbFaulty = FALSE
    /\ apiAnswers = {NoDetails, 20}
    /\ callers \in {{"u3"}, {"u4"}}

NextCategoryPair ==
    \/ \E p \in Procs, u \in callers, c \in {"intro", "sponsor"} :
           Start(p, "ipX", "s1", u, TypeUndefined, c)
    \/ \E p \in Procs : DoLoadSegment(p) \/ DoChecks(p)
    \/ \E p \in Procs : CategorySteps(p)

SpecCategoryPair == InitCategoryPair /\ [][NextCategoryPair]_vars

(* ---- requests that carry a numeric type together with a category ---- *)
InitTypedCategory ==
    /\ InitStores(Segments("sponsor", "skip", 0, 0, 0))
    /\ lockCategories = {}
    /\ vips = {getHashCache("u1")}
    /\ tempVips = {<<getHashCache("u2"), VideoID>>}
    /\ banned = {}
    /\ warnings = <<>>
    /\ redisEnabled = TRUE
    /\ redisFaulty = FALSE
    /\ dbFaulty = FALSE
    /\ apiAnswers = {NoDetails, 20}
    /\ callers \in {{"u3"}, {"u4"}}

NextTypedCategory ==
    \/ \E u \in callers, t \in {Downvote, Upvote, Undo}, c \in {"intro", "sponsor"} :
           Idle /\ Start("p1", "ipX", "s1", u, t, c)
    \/ NumericSteps("p1")
    \/ CategorySteps("p1")

SpecTypedCategory == InitTypedCategory /\ [][NextTypedCategory]_vars

(* ---- callers that are warned, banned, or both, on known and unknown segments ---- *)
InitOrder ==
    /\ InitStores(Segments("sponsor", "skip", 0, 0, 0))
    /\ lockCategories = {}
    /\ vips = {getHashCache("u1")}
    /\ tempVips = {<<getHashCache("u2"), VideoID>>}
    /\ banned = {<<"userID", getHashCache("u4")>>, <<"userID", getHashCache("u5")>>}
    /\ warnings = <<WarningAt("u4", "tip", now - 1), WarningAt("u6", "tip", now - 1)>>
    /\ redisEnabled = TRUE
    /\ redisFaulty = FALSE
    /\ dbFaulty = FALSE
    /\ apiAnswers = {NoDetails, 20}
    /\ callers \in {{"u4"}, {"u5"}, {"u6"}, {"u3"}}

NextOrder ==
    \/ \E u \in callers, UUID \in {"s1", "s0"}, t \in {Downvote, Upvote, 10, 11} :
           Idle /\ Start("p1", "ipX", UUID, u, t, "")
    \/ \E u \in callers, UUID \in {"s1", "s0"}, c \in {"intro", "sponsor"} :
           Idle /\ StartWithin(MaxCalls + 1, "p1", "ipX", UUID, u, TypeUndefined, c)
    \/ NumericSteps("p1")
    \/ CategorySteps("p1")
    \/ Tasks

SpecOrder == InitOrder /\ [][NextOrder]_vars

(* ---- votes on a segment at or near the dead threshold ---- *)
InitDead ==
    /\ \E v \in {-3, -2, -1}, a \in {"skip", "full"} : InitStores(Segments("sponsor", a, v, 0, 0))
    /\ lockCategories = {}
    /\ vips = {getHashCache("u1")}
    /\ tempVips = {<<getHashCache("u2"), VideoID>>}
    /\ banned = {}
    /\ warnings = <<>>
    /\ redisEnabled = TRUE
    /\ redisFaulty = FALSE
    /\ dbFaulty = FALSE
    /\ apiAnswers = {NoDetails, 20}
    /\ callers \in {{"u4"}, {"u3"}}

NextDead ==
    \/ \E u \in callers, t \in {Downvote, Upvote} : Idle /\ Start("p1", "ipX", "s1", u, t, "")
    \/ NumericSteps("p1")
    \/ Tasks

SpecDead == InitDead /\ [][NextDead]_vars

(* ---- votes on a segment that is locked and whose category is locked on the video ---- *)
\* a lockCategories row of the video
LockCategory(category, actionType) ==
    [videoID |-> VideoID, category |-> category, actionType |-> actionType]

InitBlocked ==
    /\ \E k \in {0, 1} : InitStores(Segments("sponsor", "skip", 0, k, 0))
    /\ lockCategories = {LockCategory("sponsor", "skip")}
    /\ vips = {getHashCache("u1")}
    /\ tempVips = {<<getHashCache("u2"), VideoID>>}
    /\ banned = {}
    /\ warnings = <<>>
    /\ redisEnabled = TRUE
    /\ redisFaulty = FALSE
    /\ dbFaulty = FALSE
    /\ apiAnswers = {NoDetails, 20}
    /\ callers \in {{"u2"}, {"u4"}}

NextBlocked ==
    \/ \E u \in callers, t \in {Downvote, Upvote, Undo} :
           Idle /\ Start("p1", "ipX", "s1", u, t, "")
    \/ NumericSteps("p1")
    \/ DoTempVipUnhide("p1")
    \/ Tasks

SpecBlocked == InitBlocked /\ [][NextBlocked]_vars

(* ---- category votes on s1 when it may be locked and intro may be locked on the video ---- *)
InitLockedCategory ==
    /\ \E k \in {0, 1} : InitStores(Segments("sponsor", "skip", 0, k, 0))
    /\ lockCategories \in {{}, {LockCategory("intro", "skip")}}
    /\ vips = {getHashCache("u1")}
    /\ tempVips = {<<getHashCache("u2"), VideoID>>}
    /\ banned = {}
    /\ warnings = <<>>
    /\ redisEnabled = TRUE
    /\ redisFaulty = FALSE
    /\ dbFaulty = FALSE
    /\ apiAnswers = {NoDetails}
    /\ callers \in {{"u2"}, {"u3"}, {"u4"}, {"u1", "u4"}}

NextLockedCategory ==
    \/ \E u \in callers, c \in {"intro", "sponsor", "chapter"} :
           Idle /\ StartWithin(MaxCalls + 1, "p1", "ipX", "s1", u, TypeUndefined, c)
    \/ DoLoadSegment("p1")
    \/ DoChecks("p1")
    \/ CategorySteps("p1")

SpecLockedCategory == InitLockedCategory /\ [][NextLockedCategory]_vars

(* ---- numeric votes on s1 by users with and without a counted submission ---- *)
InitNewcomer ==
    /\ \E v \in {-3, 0}, s2 \in {<<"sponsor", 0, 0>>, <<"intro", 0, 0>>,
                                  <<"sponsor", -2, 0>>, <<"sponsor", 0, 1>>} :
           InitStores([Segments("sponsor", "skip", v, 0, 0) EXCEPT
                          !["s2"].category = s2[1], !["s2"].votes = s2[2],
                          !["s2"].hidden = s2[3]])
    /\ lockCategories = {}
    /\ vips = {getHashCache("u1")}
    /\ tempVips = {<<getHashCache("u2"), VideoID>>}
    /\ banned = {}
    /\ warnings = <<>>
    /\ redisEnabled = TRUE
    /\ redisFaulty = FALSE
    /\ dbFaulty = FALSE
    /\ apiAnswers = {NoDetails}
    /\ callers \in {{"u3"}, {"u4"}, {"u5"}, {"u6"}}

NextNewcomer ==
    \/ \E u \in callers, t \in {Downvote, Upvote, Undo} :
           Idle /\ Start("p1", "ipX", "s1", u, t, "")
    \/ NumericSteps("p1")
    \/ CheckVideoDurationRead

SpecNewcomer == InitNewcomer /\ [][NextNewcomer]_vars

(* ---- two users vote on s1 at the same time, each once ---- *)
InitTwoUsers ==
    /\ \E v \in {0, 3} : InitStores(Segments("sponsor", "skip", v, 0, 0))
    /\ lockCategories = {}
    /\ vips = {getHashCache("u1")}
    /\ tempVips = {<<getHashCache("u2"), VideoID>>}
    /\ banned = {}
    /\ warnings = <<>>
    /\ redisEnabled = TRUE
    /\ redisFaulty = FALSE
    /\ dbFaulty = FALSE
    /\ apiAnswers = {NoDetails, 20}
    /\ callers \in {{"u4", "u5"}, {"u1", "u2"}, {"u1", "u3"}, {"u2", "u3"}}

NextTwoUsers ==
    \/ \E p \in Procs, u \in callers, t \in {Downvote, Upvote} :
           /\ proc[p].pc = "idle"
           /\ \A q \in Procs \ {p} : proc[q].paramUserID # u
           /\ Start(p, IF p = "p1" THEN "ipX" ELSE "ipY", "s1", u, t, "")
    \/ \E p \in Procs : NumericSteps(p)
    \/ \E p \in Procs : PrivilegedSteps(p)
    \/ Tasks

SpecTwoUsers == InitTwoUsers /\ [][NextTwoUsers]_vars

(* ---- calls of u4 on s1 that may outlast the lease of their lock ---- *)
InitLease ==
    /\ InitStores(Segments("sponsor", "skip", 0, 0, 0))
    /\ lockCategories = {}
    /\ vips = {getHashCache("u1")}
    /\ tempVips = {<<getHashCache("u2"), VideoID>>}
    /\ banned = {}
    /\ warnings = <<>>
    /\ redisEnabled = TRUE
    /\ redisFaulty = FALSE
    /\ dbFaulty = FALSE
    /\ apiAnswers = {NoDetails}
    /\ callers = {"u4"}

NextLease ==
    \/ \E p \in Procs :
           StartWithin(MaxCalls + 1, p, "ipX", "s1", "u4", Upvote, "")
    \/ \E p \in Procs : NumericSteps(p)
    \/ LeaseExpires

SpecLease == InitLease /\ [][NextLease]_vars

(* ---- upvotes of u4 on s1 while readers fetch the segments of the video ---- *)
InitReadThrough ==
    /\ InitStores(Segments("sponsor", "skip", 0, 0, 0))
    /\ lockCategories = {}
    /\ vips = {getHashCache("u1")}
    /\ tempVips = {<<getHashCache("u2"), VideoID>>}
    /\ banned = {}
    /\ warnings = <<>>
    /\ redisEnabled = TRUE
    /\ redisFaulty = FALSE
    /\ dbFaulty = FALSE
    /\ apiAnswers = {NoDetails}
    /\ callers \in {{"u4"}, {"u5"}}

NextReadThrough ==
    \/ \E u \in callers, t \in {Upvote, Undo} :
           Idle /\ StartWithin(MaxCalls + 1, "p1", "ipX", "s1", u, t, "")
    \/ NumericSteps("p1")
    \/ ReadStarts
    \/ ReadGetReply
    \/ ReadGetFetch
    \/ ReadGetSet

SpecReadThrough == InitReadThrough /\ [][NextReadThrough]_vars

(* ------------------------------ claims --------------------------------- *)
SameVote(a, b) ==
    /\ a.paramUserID = b.paramUserID /\ a.UUID = b.UUID
    /\ a.type = b.type /\ a.category = b.category

\* C2: the same vote type cast twice in a row by the same user on the same segment
\* leaves the votes after the second call equal to the votes after the first.
C2_RevoteIdempotent ==
    Idle => \A i \in 1..(Len(log) - 1) :
        SameVote(log[i], log[i + 1]) /\ log[i].category = ""
            => log[i + 1].votesAfter = log[i].votesAfter

Privileged(e) == e.isVIP \/ e.isTempVIP \/ e.isOwnSubmission

\* C7: an applied downvote of a VIP, temp VIP or submitter leaves the segment at
\* exactly -2 votes, whatever the starting count and the caller's previous vote.
C7_PrivilegedDownvote ==
    \A i \in 1..Len(log) :
        log[i].type = Downvote /\ log[i].category = "" /\ Privileged(log[i]) /\ log[i].applied
            => log[i].votesAfter = -2
C7_Witness ==
    \E i \in 1..Len(log) :
        /\ log[i].type = Downvote /\ log[i].isVIP /\ log[i].applied
        /\ log[i].votesBefore = 3 /\ log[i].votesRow = <<>>
        /\ log[i].incrementAmount = -5 /\ log[i].votesAfter = -2

RECURSIVE SumOldIncrements(_, _)
SumOldIncrements(rows, UUID) ==
    IF rows = <<>> THEN 0
    ELSE (IF Head(rows).UUID = UUID THEN OldIncrement(Head(rows).type) ELSE 0)
         + SumOldIncrements(Tail(rows), UUID)

\* C3: a segment's votes is its count at creation plus the sum, over the stored Vote
\* rows of the segment, of the increment each row's type decodes to.
C3_VotesAreSumOfRows ==
    Idle => \A u \in DOMAIN sponsorTimes :
        sponsorTimes[u].votes = start[u].votes + SumOldIncrements(privateVotes, u)

Running(p) == ~Ended(World, p)
LockWorks == redisEnabled /\ ~redisFaulty
\* what an ended call added to the segment's votes
Delta(e) == IF e.applied THEN e.incrementAmount - e.oldIncrementAmount ELSE 0

\* C1: with the lock backend enabled and reachable, two numeric vote calls for the same
\* (segmentID, rawUserID) are never both past lock acquisition; when neither got 429 the
\* second read the votes and the Vote row the first left, and the segment's votes moved
\* by the sum of the two deltas.
C1_SameUserSerialized ==
    LockWorks =>
        /\ \A p, q \in Procs :
              p # q /\ Running(p) /\ Running(q) =>
                  lockKey(proc[p].UUID, proc[p].paramUserID) # lockKey(proc[q].UUID, proc[q].paramUserID)
        /\ Len(log) = 2 /\ SameVote([log[1] EXCEPT !.type = 0], [log[2] EXCEPT !.type = 0])
              /\ log[1].status # 429 /\ log[2].status # 429 =>
              /\ log[2].readVotes = <<log[1].votesAfter>>
              /\ log[2].votesRow = (IF log[1].applied THEN <<log[1].storedType>> ELSE log[1].votesRow)
              /\ sponsorTimes[log[1].UUID].votes
                    = start[log[1].UUID].votes + Delta(log[1]) + Delta(log[2])
C1_Witness ==
    /\ LockWorks /\ Len(log) = 2
    /\ log[1].applied /\ log[2].applied /\ log[1].type = Upvote /\ log[2].type = Downvote
    /\ log[1].paramUserID = log[2].paramUserID

AtMostOneRow ==
    \A i, j \in 1..Len(privateVotes) :
        privateVotes[i].userID = privateVotes[j].userID /\ privateVotes[i].UUID = privateVotes[j].UUID
            => i = j

\* C4 as stated: in every reachable state there is at most one Vote row per
\* (per-segment user identity, segment).
C4_OneRowAlways == AtMostOneRow

RowsKept ==
    /\ Len(privateVotes') >= Len(privateVotes)
    /\ \A i \in 1..Len(privateVotes) :
          [privateVotes'[i] EXCEPT !.type = 0, !.originalType = 0]
              = [privateVotes[i] EXCEPT !.type = 0, !.originalType = 0]

\* C4 amended: while the lock backend is enabled and reachable, there is at most one
\* Vote row per (user identity, segment); a step of a vote call only adds a row or changes
\* type and originalType of existing rows, and never removes one.
C4_OneRowUnderLock == [][LockWorks => AtMostOneRow' /\ RowsKept]_vars
C4_Witness ==
    /\ LockWorks /\ Len(log) = 2 /\ Len(privateVotes) = 1
    /\ log[1].applied /\ log[2].applied /\ log[2].votesRow # <<>>
    /\ privateVotes[1].type = log[2].storedType

\* C5: every vote call that acquired the lock has released it by the time it returns or
\* throws, also when a query made before the try block fails.
C5_LockReleasedOnExit == \A i \in 1..Len(log) : ~log[i].held

\* C6: with a failing store, no vote call that got past lock acquisition ends by throwing:
\* it answers 500 with the generic error payload and the lock released.
C6_ErrorsAnswered500 ==
    dbFaulty => \A i \in 1..Len(log) :
        /\ log[i].outcome = "returned"
        /\ log[i].status = 500 =>
               ~log[i].held /\ log[i].message = <<"Internal error creating segment vote">>

\* a running upvote of p on its own submission, the caller's previous vote on it absent
\* or not a downvote
OwnUpvote(p) ==
    LET l == proc[p]
        row == GetRow(privateVotes, LAMBDA r : r.userID = userIDOf(l.paramUserID, l.UUID)
                                               /\ r.UUID = l.UUID)
    IN /\ ~Ended(World, p) /\ l.type = Upvote /\ l.category = ""
       /\ l.UUID \in DOMAIN sponsorTimes
       /\ sponsorTimes[l.UUID].userID = nonAnonUserIDOf(l.paramUserID)
       /\ (row = <<>> \/ row[1].originalType \in {Upvote, Undo})
NoOp200(p) ==
    /\ sponsorTimes' = sponsorTimes /\ privateVotes' = privateVotes
    /\ lockCategories' = lockCategories
    /\ proc'[p].pc # "thrown"
    /\ proc'[p].pc = "done" => proc'[p].status = 200
Unprivileged(u) ==
    /\ ~isUserVIP(nonAnonUserIDOf(u)) /\ ~isUserTempVIP(nonAnonUserIDOf(u), VideoID)
    /\ Len(ActiveWarnings(nonAnonUserIDOf(u))) < maxNumberOfActiveWarnings

\* C8 as stated: every step of a submitter's upvote of their own segment, previous vote
\* absent or not a downvote, leaves votes, Vote rows, locked and hidden flags as they
\* were, and the call returns 200.
C8_OwnUpvoteNoOp ==
    [][\A p \in Procs : OwnUpvote(p) /\ proc'[p] # proc[p] => NoOp200(p)]_vars

\* C8 amended: the same for a submitter who is neither VIP nor temp VIP and has fewer
\* active warnings than the configured maximum.
C8_UnprivilegedOwnUpvoteNoOp ==
    [][\A p \in Procs : OwnUpvote(p) /\ Unprivileged(proc[p].paramUserID)
                            /\ proc'[p] # proc[p] => NoOp200(p)]_vars
C8_Witness ==
    \E i \in 1..Len(log) :
        /\ log[i].type = Upvote /\ log[i].isOwnSubmission /\ ~log[i].isVIP /\ ~log[i].isTempVIP
        /\ log[i].status = 200 /\ log[i].votesRow = <<Undo>> /\ ~log[i].applied
        /\ log[i].votesBefore = 2 /\ banned = {}

\* another user's applied vote on the segment of p's call came from the address p votes from
SharesAddress(p) ==
    \E i \in 1..Len(log) :
        /\ log[i].applied /\ log[i].category = ""
        /\ log[i].UUID = proc[p].UUID /\ log[i].ip = proc[p].ip
        /\ log[i].paramUserID # proc[p].paramUserID

\* C9: once user A has voted on S from address X, no step of a numeric vote on S from X by
\* another user B who is neither VIP nor temp VIP changes the stores.
C9_SharedAddressRejected ==
    [][\A p \in Procs :
          /\ ~Ended(World, p) /\ proc[p].category = "" /\ SharesAddress(p)
          /\ ~isUserVIP(nonAnonUserIDOf(proc[p].paramUserID))
          /\ ~isUserTempVIP(nonAnonUserIDOf(proc[p].paramUserID), VideoID)
          /\ proc'[p] # proc[p]
          => /\ sponsorTimes' = sponsorTimes /\ privateVotes' = privateVotes
             /\ lockCategories' = lockCategories]_vars

\* the aggregate of category c on segment u, 0 when it has no row
Aggregate(u, c) ==
    LET r == AggregateRow(World, u, c) IN IF r = <<>> THEN 0 ELSE r[1].votes
\* the step in which p's category vote replaces the category of its segment
Replaces(p) ==
    /\ proc[p].pc = "cvReplace" /\ proc'[p] # proc[p]
    /\ sponsorTimes'[proc[p].UUID].category # sponsorTimes[proc[p].UUID].category
Outvotes(u, candidate) ==
    Aggregate(u, candidate) - Aggregate(u, sponsorTimes[u].category)
        >= MathMax(CeilHalf(sponsorTimes[u].votes), 2)

\* C10 as stated: a caller who is not VIP replaces the category only when the candidate's
\* aggregate, the vote counted, exceeds the current category's by max(ceil(votes / 2), 2).
C10_NonVipFlipNeedsMargin ==
    [][\A p \in Procs :
          Replaces(p) /\ ~proc[p].isVIP => Outvotes(proc[p].UUID, proc[p].category)]_vars

\* C10 amended: the same for a caller who is neither VIP nor temp VIP nor the submitter of
\* the segment.
C10_OutsiderFlipNeedsMargin ==
    [][\A p \in Procs :
          Replaces(p) /\ ~proc[p].isVIP /\ ~proc[p].isTempVIP /\ ~proc[p].isOwnSubmission
              => Outvotes(proc[p].UUID, proc[p].category)]_vars
C10_Witness ==
    /\ sponsorTimes["s1"].category = "intro" /\ start["s1"].category = "sponsor"
    /\ Len(log) = 3
    /\ \A i \in 1..3 : ~log[i].isVIP /\ ~log[i].isTempVIP /\ ~log[i].isOwnSubmission
    /\ Aggregate("s1", "intro") = 3 /\ Aggregate("s1", "sponsor") = 1

\* the weight a private category row stands for: the seeded row of the submission carries
\* startingVotes, a voter's row the voter's voteAmount
RowWeight(r) ==
    IF r.hashedIP = <<"unknown">> THEN (IF isUserVIP(r.userID) THEN 10000 ELSE 1)
    ELSE IF isUserVIP(r.userID) \/ isUserTempVIP(r.userID, VideoID) THEN 500 ELSE 1
RECURSIVE SumWeights(_, _, _)
SumWeights(rows, UUID, c) ==
    IF rows = <<>> THEN 0
    ELSE (IF Head(rows).UUID = UUID /\ Head(rows).category = c THEN RowWeight(Head(rows)) ELSE 0)
         + SumWeights(Tail(rows), UUID, c)
OneChoicePerUser ==
    \A i, j \in 1..Len(privateCategoryVotes) :
        /\ privateCategoryVotes[i].userID = privateCategoryVotes[j].userID
        /\ privateCategoryVotes[i].UUID = privateCategoryVotes[j].UUID
        => i = j

\* C11: between category votes applied one at a time, every user has at most one private
\* category row per segment and every category aggregate is the sum of the weights of the
\* rows that choose it, so a switch credits the new category what it debits the old one.
C11_OneChoiceOneAggregate ==
    Idle => /\ OneChoicePerUser
            /\ \A u \in UUIDs, c \in categoryList :
                   Aggregate(u, c) = SumWeights(privateCategoryVotes, u, c)

\* segment u is locked and this step changes its category or makes it visible again
BreaksLock(u) ==
    /\ sponsorTimes[u].locked = 1
    /\ \/ sponsorTimes'[u].category # sponsorTimes[u].category
       \/ sponsorTimes[u].hidden # 0 /\ sponsorTimes'[u].hidden = 0
StepOf(p) == ~Ended(World, p) /\ proc'[p] # proc[p]

AtWarningLimit(u) == Len(ActiveWarnings(nonAnonUserIDOf(u))) >= maxNumberOfActiveWarnings
\* the reason of the most recently issued active warning of u
LatestReason(u) ==
    LET warns == ActiveWarnings(nonAnonUserIDOf(u))
        i == CHOOSE i \in 1..Len(warns) : \A j \in 1..Len(warns) : warns[j].issueTime <= warns[i].issueTime
    IN warns[i].reason
StoresAsAtStart ==
    /\ sponsorTimes = start /\ privateVotes = <<>> /\ categoryVotes = <<>>
    /\ privateCategoryVotes = <<>> /\ lockCategories = {}

\* C13: a vote, numeric or category, of a caller at the warning limit ends with 403 and the
\* reason of the caller's latest warning in the message, and nothing is written.
C13_WarnedGets403 ==
    \A i \in 1..Len(log) :
        AtWarningLimit(log[i].paramUserID) =>
            /\ log[i].outcome = "returned" /\ log[i].status = 403
            /\ log[i].message = WarningMessage(LatestReason(log[i].paramUserID))
            /\ StoresAsAtStart

CallerBanned(e) ==
    \/ <<"userID", nonAnonUserIDOf(e.paramUserID)>> \in banned
    \/ <<"hashedIP", hashedIPOf(e.ip)>> \in banned
\* the call got as far as the ban check of line 415
ReachesBanCheck(e) ==
    /\ e.outcome = "returned" /\ e.status # 429
    /\ e.UUID \in DOMAIN start /\ e.type \notin {10, 11}

\* C14: every vote, numeric or category, of a banned caller below the warning limit
\* returns 200 and leaves every persisted value as it was.
C14_BannedGets200 ==
    \A i \in 1..Len(log) :
        CallerBanned(log[i]) /\ ~AtWarningLimit(log[i].paramUserID) =>
            log[i].status = 200 /\ StoresAsAtStart

\* C14, amended: a banned caller's vote leaves every persisted value as it was, and
\* returns 200 once it has passed the segment lookup and the reserved-type check.
C14_BannedNoEffect ==
    \A i \in 1..Len(log) :
        CallerBanned(log[i]) /\ ~AtWarningLimit(log[i].paramUserID) =>
            /\ StoresAsAtStart
            /\ ReachesBanCheck(log[i]) => log[i].status = 200

C14_Witness ==
    /\ \E i \in 1..Len(log) : /\ CallerBanned(log[i]) /\ ReachesBanCheck(log[i])
                               /\ log[i].paramUserID = "u5" /\ log[i].type = Downvote
    /\ \E i \in 1..Len(log) : /\ CallerBanned(log[i]) /\ ReachesBanCheck(log[i])
                               /\ log[i].paramUserID = "u5" /\ log[i].category = "intro"

Rejected(e) == e.outcome = "returned" /\ e.status \in {400, 403, 404, 429}

\* C15: when every call made so far has returned 400, 403, 404 or 429, nothing has been
\* written to either store, the work those calls left running in the background included.
C15_RejectedWritesNothing ==
    (Len(log) = calls /\ \A i \in 1..Len(log) : Rejected(log[i])) => StoresAsAtStart

\* C16: a call for which the lock backend was disabled, or raised an error on its
\* set-if-absent, proceeds as the lock's holder with a release that does nothing: it is
\* not answered 429 and does not fail.
C16_LockFailsOpen ==
    \A i \in 1..Len(log) :
        log[i].lock \in {"disabled", "error"} =>
            /\ ~log[i].unlockDel
            /\ log[i].outcome = "returned" /\ log[i].status \notin {429, 500}

\* both calls run at once on the same (segment, user), one of them after the backend raised
C16_Witness ==
    /\ redisEnabled
    /\ proc["p1"].pc = "writeVotesRow" /\ proc["p2"].pc = "writeVotesRow"
    /\ proc["p1"].lock = "set" /\ proc["p2"].lock = "error"

Quiescent == Idle /\ bg = {}

\* C17: every change the vote path makes to a segment row is followed by an invalidation
\* of the segment's derived cache keys, so once every call and every background check has
\* ended the keys are absent or hold the rows as they are now.
C17_CacheFollowsRows ==
    Quiescent => cache = <<>> \/ cache[1] = sponsorTimes

\* C18: over a healthy store no vote ends in an error, whether the cache deletes and the
\* duration lookups it triggers succeed or fail.
C18_LookupFailuresUnseen ==
    \A i \in 1..Len(log) : log[i].outcome = "returned" /\ log[i].status # 500

\* a call arrives in slot p, naming a segment and carrying a type or a category, with a
\* user id below the minimum length
ShortCallArrives(p) ==
    /\ Ended(World, p) /\ proc'[p] # proc[p]
    /\ proc'[p].paramUserID = "tiny" /\ proc'[p].UUID # ""
    /\ proc'[p].originalType # TypeUndefined \/ proc'[p].category # ""

\* C19: a vote whose user id is below the minimum length returns 200 at once: the lock is
\* not asked for and no store, lock key or background task is read or changed.
C19_ShortUserIDIsNoOp ==
    [][\A p \in Procs : ShortCallArrives(p) =>
          /\ proc'[p].pc = "done" /\ proc'[p].status = 200 /\ proc'[p].lock = "none"
          /\ proc'[p].segmentInfo = <<>> /\ proc'[p].votesRow = <<>>
          /\ UNCHANGED <<sponsorTimes, privateVotes, categoryVotes, privateCategoryVotes,
                         lockCategories, redis, bg, cache>>]_vars

\* a short-id vote with a reserved type and a category on an unknown segment was answered
\* 200 while u4's vote was under way
C19_Witness ==
    /\ proc["p2"].pc = "done" /\ proc["p2"].status = 200 /\ proc["p2"].paramUserID = "tiny"
    /\ proc["p2"].UUID = "s0" /\ proc["p2"].originalType = 10 /\ proc["p2"].category = "intro"
    /\ proc["p1"].pc = "writeVotesRow"

\* the call in slot p is inside categoryVote
InCategoryVote(p) ==
    proc[p].pc \notin {"idle", "done", "thrown", "loadSegment", "checks"}

\* C20: with the lock backend enabled and reachable, two category votes of one user on one
\* segment are never inside categoryVote at the same time.
C20_CategoryVotesSerialized ==
    (redisEnabled /\ ~redisFaulty) =>
        ~ /\ InCategoryVote("p1") /\ InCategoryVote("p2")
          /\ proc["p1"].UUID = proc["p2"].UUID
          /\ proc["p1"].paramUserID = proc["p2"].paramUserID

\* C21: a request that carries a numeric vote type (0 included) together with a category
\* goes through the numeric pipeline: no category aggregate, no private category-choice
\* row and no segment category is changed by it.
C21_TypedVoteIsNumeric ==
    (\A i \in 1..Len(log) : log[i].type \in {Downvote, Upvote, Undo} /\ log[i].category # "")
        => /\ categoryVotes = <<>> /\ privateCategoryVotes = <<>>
           /\ \A u \in UUIDs : sponsorTimes[u].category = start[u].category

\* the status the first failing check gives, 0 when no check of lines 373-418 fails
FirstFailingCheck(e) ==
    IF e.UUID \notin DOMAIN start THEN 404
    ELSE IF e.type \in {10, 11} THEN 400
    ELSE IF AtWarningLimit(e.paramUserID) THEN 403
    ELSE IF CallerBanned(e) THEN 200
    ELSE 0

\* C22: a call that holds the lock is answered by the first failing check in the order
\* segment absent (404), type 10 or 11 (400), warning limit reached (403 with the warning
\* message), banned (200 without effect).
C22_ChecksInOrder ==
    \A i \in 1..Len(log) :
        FirstFailingCheck(log[i]) # 0 =>
            /\ log[i].outcome = "returned" /\ log[i].status = FirstFailingCheck(log[i])
            /\ log[i].status = 403 => log[i].message = WarningMessage("tip")
            /\ log[i].status # 403 => log[i].message = <<>>
            /\ ~log[i].applied

\* the banned and warned u4 was answered 403 on s1 and 404 on the unknown segment
C22_Witness ==
    /\ \E i \in 1..Len(log) : /\ log[i].paramUserID = "u4" /\ log[i].UUID = "s1"
                               /\ log[i].type = Downvote /\ log[i].status = 403
    /\ \E i \in 1..Len(log) : /\ log[i].paramUserID = "u4" /\ log[i].UUID = "s0"
                               /\ log[i].status = 404

\* the call in slot p is about to run the dead-segment rule of lines 446-457 as an
\* outsider's plain vote on a segment it read with votes <= -2 and an action type not full
AtDeadRule(p) ==
    /\ proc[p].pc = "lockCheck" /\ proc'[p] # proc[p]
    /\ ~(proc[p].isVIP \/ proc[p].isTempVIP \/ proc[p].isOwnSubmission)
    /\ proc[p].segmentInfo[1].votes <= -2 /\ proc[p].segmentInfo[1].actionType # "full"
    /\ proc[p].type \in {Downvote, Upvote}

\* C23: on a segment with votes <= -2 and an action type other than full, an outsider's
\* upvote is answered 403 and their downvote 200, and neither changes the segment's votes
\* or a Vote row.
C23_DeadSegmentRule ==
    [][\A p \in Procs : AtDeadRule(p) =>
          /\ proc'[p].pc = "done" /\ ~proc'[p].applied
          /\ proc'[p].status = IF proc[p].type = Upvote THEN 403 ELSE 200
          /\ UNCHANGED <<sponsorTimes, privateVotes, bg>>]_vars

\* u4 took s1 from -1 to -2 and was then refused an upvote at exactly -2
C23_Witness ==
    /\ Len(log) = 2 /\ log[1].applied /\ log[1].votesAfter = -2
    /\ log[2].paramUserID = "u4" /\ log[2].type = Upvote /\ log[2].status = 403
    /\ log[2].votesAfter = -2 /\ Len(privateVotes) = 1

\* every call made so far is a downvote or an undo; no caller of the run is VIP
OnlyBlockedKinds ==
    /\ \A i \in 1..Len(log) : log[i].type \in {Downvote, Undo}
    /\ \A p \in Procs : Ended(World, p) \/ proc[p].originalType \in {Downvote, Undo}

\* C24: votes that are not plain upvotes, from callers who are not VIP, on a segment that
\* is locked or whose category is locked on the video, have no database effect: votes,
\* locked and hidden flags, Vote rows and lock category records stay as they were, the
\* background work of those calls included.
C24_BlockedVoteHasNoEffect ==
    OnlyBlockedKinds =>
        /\ sponsorTimes = start /\ privateVotes = <<>>
        /\ lockCategories = {LockCategory("sponsor", "skip")}

\* entry j is an applied Undo that directly follows the applied vote i of the same user
UndoOf(i, j) ==
    /\ j = i + 1 /\ j <= Len(log)
    /\ log[i].applied /\ log[i].type # Undo
    /\ log[j].applied /\ log[j].type = Undo
    /\ log[j].paramUserID = log[i].paramUserID /\ log[j].UUID = log[i].UUID

\* C25: for every tier and every starting count, an applied vote followed by the same
\* user's Undo brings the segment's votes back to what they were before the vote.
C25_UndoRestoresVotes ==
    \A i \in 1..Len(log) : UndoOf(i, i + 1) => log[i + 1].votesAfter = log[i].votesBefore

\* C26: for every tier and every starting count, an applied vote sent as Malicious uses an
\* increment that is never positive and never below -5.
C26_MaliciousCapped ==
    \A i \in 1..Len(log) :
        (log[i].applied /\ log[i].type = Malicious) => log[i].incrementAmount \in -5..0

\* the call in slot p returns 200 in this step as a VIP's applied normal vote with a
\* positive increment
VipPositiveReturns(p) ==
    /\ proc[p].pc = "finish" /\ proc'[p].pc = "done" /\ proc'[p].status = 200
    /\ proc[p].isVIP /\ proc[p].applied
    /\ proc[p].incrementAmount > 0 /\ proc[p].voteTypeEnum = normal

LockedAndVisible(r) == r.locked = 1 /\ r.hidden = 0 /\ r.shadowHidden = 0

NoEarlierDurationCheck == \A i \in 1..Len(log) : ~LeqZero(log[i].type)

VipDownOrUndoReturns(p) ==
    /\ Len(log) = 0
    /\ proc[p].pc = "finish" /\ proc'[p].pc = "done" /\ proc'[p].status = 200
    /\ proc[p].isVIP /\ proc[p].applied /\ proc[p].originalType \in {Downvote, Undo}

\* C28: for every starting count, counts below -2 included, a VIP's applied Downvote or
\* Undo leaves the segment unlocked.
C28_VipDownvoteUnlocks ==
    [][\A p \in Procs : VipDownOrUndoReturns(p) =>
          sponsorTimes'[proc[p].UUID].locked = 0]_vars

\* the call running in slot p repeats the category its user chose in the call before it
RepeatsLastChoice(p) ==
    /\ ~Ended(World, p) /\ proc[p].category # "" /\ Len(log) >= 1
    /\ LET e == log[Len(log)] IN
         /\ e.paramUserID = proc[p].paramUserID /\ e.UUID = proc[p].UUID
         /\ e.category = proc[p].category /\ e.outcome = "returned" /\ e.status = 200
    /\ \E i \in 1..Len(privateCategoryVotes) :
         /\ privateCategoryVotes[i].UUID = proc[p].UUID
         /\ privateCategoryVotes[i].userID = nonAnonUserIDOf(proc[p].paramUserID)
         /\ privateCategoryVotes[i].category = proc[p].category

\* C29: a category vote for the category its user chose last on the segment, the
\* submitter's votes included, succeeds and changes no aggregate, no private
\* category-choice row and not the segment's category.
C29_RepeatedChoiceIsNoOp ==
    [][\A p \in Procs : RepeatsLastChoice(p) =>
          /\ UNCHANGED <<categoryVotes, privateCategoryVotes, sponsorTimes>>
          /\ proc'[p].pc \in {"checks", "cvLastVote", "done"}
          /\ proc'[p].pc = "done" => proc'[p].status = 200]_vars

\* the call in slot p is a non-VIP's category vote inside categoryVote, for a category
\* its segment's action type supports, and the segment is locked or the category is
\* locked on the segment's video
LockedCategoryVote(p) ==
    /\ proc[p].pc \in {"cvLastVote", "cvSegment", "cvNextLocked"}
    /\ ~proc[p].isVIP
    /\ sponsorTimes[proc[p].UUID].actionType \in categorySupport(proc[p].category)
    /\ \/ sponsorTimes[proc[p].UUID].locked = 1
       \/ \E r \in lockCategories :
             /\ r.videoID = sponsorTimes[proc[p].UUID].videoID
             /\ r.category = proc[p].category

CategoryVoteReturns(p) ==
    /\ proc[p].category # "" /\ proc[p].catSegmentInfo # <<>>
    /\ proc[p].pc \notin {"cvLastVote", "cvSegment", "cvNextLocked"}
    /\ proc'[p].pc = "done"

\* C31: when a category vote of a VIP, temp VIP or submitter that no guard stopped
\* returns, the segment's stored category is the candidate, whatever the aggregates
\* and the segment's votes are.
C31_PrivilegedChoiceReplaces ==
    [][\A p \in Procs :
          (CategoryVoteReturns(p)
             /\ (proc[p].isVIP \/ proc[p].isTempVIP \/ proc[p].isOwnSubmission)) =>
          /\ proc'[p].status = 200
          /\ sponsorTimes'[proc[p].UUID].category = proc[p].category]_vars

\* the submitter moved the segment to intro against the seed and another user's vote
C31_Witness ==
    /\ Idle /\ Len(log) >= 2
    /\ LET e == log[Len(log)] IN
         /\ e.category = "intro" /\ e.isOwnSubmission /\ ~e.isVIP /\ ~e.isTempVIP
         /\ e.status = 200
    /\ sponsorTimes["s1"].category = "intro"
    /\ \E i, j \in 1..Len(categoryVotes) :
          /\ categoryVotes[i].category = "intro" /\ categoryVotes[j].category = "sponsor"
          /\ categoryVotes[j].votes > categoryVotes[i].votes

\* the status-quo weight of segment u: 10000 if its submitter is VIP, else 1
SeedWeight(u) == IF isUserVIP(sponsorTimes[u].userID) THEN 10000 ELSE 1
\* what the users' own rows for category c of segment u weigh, the seed row left out
RECURSIVE ChosenWeight(_, _, _)
ChosenWeight(rows, u, c) ==
    IF rows = <<>> THEN 0
    ELSE (IF Head(rows).UUID = u /\ Head(rows).category = c /\ Head(rows).hashedIP # <<"unknown">>
          THEN RowWeight(Head(rows)) ELSE 0)
         + ChosenWeight(Tail(rows), u, c)
SeedRows(u) ==
    {i \in 1..Len(privateCategoryVotes) :
        privateCategoryVotes[i].UUID = u /\ privateCategoryVotes[i].hashedIP = <<"unknown">>}

\* C32: once the first counted category vote on s1 has returned, whatever candidate it
\* named, the aggregate of sponsor (the category of s1 before the vote) is the seed
\* weight plus the weights of the users who chose sponsor; and the seed is never
\* added twice.
C32_SeedCounted ==
    /\ (Idle /\ Len(log) = 1 /\ categoryVotes # <<>>) =>
           Aggregate("s1", "sponsor")
             = SeedWeight("s1") + ChosenWeight(privateCategoryVotes, "s1", "sponsor")
    /\ Cardinality(SeedRows("s1")) <= 1

\* user u has no counted submission in the category of segment s
NoCountedSubmission(u, s) ==
    ~\E x \in DOMAIN sponsorTimes :
        /\ sponsorTimes[x].userID = nonAnonUserIDOf(u)
        /\ sponsorTimes[x].category = sponsorTimes[s].category
        /\ sponsorTimes[x].votes > -2
        /\ sponsorTimes[x].hidden = 0 /\ sponsorTimes[x].shadowHidden = 0
\* the call in slot p is a numeric vote of a user who is neither VIP nor temp VIP and
\* has no counted submission in the segment's category
NewcomerVote(p) ==
    /\ ~Ended(World, p) /\ proc[p].category = "" /\ proc[p].UUID \in DOMAIN sponsorTimes
    /\ ~isUserVIP(nonAnonUserIDOf(proc[p].paramUserID))
    /\ ~isUserTempVIP(nonAnonUserIDOf(proc[p].paramUserID), VideoID)
    /\ NoCountedSubmission(proc[p].paramUserID, proc[p].UUID)

RECURSIVE SumDeltas(_)
SumDeltas(entries) ==
    IF entries = <<>> THEN 0 ELSE Delta(Head(entries)) + SumDeltas(Tail(entries))
DistinctUsers ==
    \A i, j \in 1..Len(log) : log[i].paramUserID = log[j].paramUserID => i = j

\* C34: when the numeric votes of distinct users who are neither VIP, temp VIP nor the
\* submitter have all ended, however their steps interleaved, the votes of s1 are its
\* initial votes plus the sum of the applied votes' incrementAmount - oldIncrementAmount.
C34_NoLostUpdate ==
    (Idle /\ DistinctUsers /\ \A i \in 1..Len(log) : ~Privileged(log[i])) =>
        sponsorTimes["s1"].votes = start["s1"].votes + SumDeltas(log)

\* both votes read the segment before either wrote, and both were applied
C34_Witness ==
    /\ Idle /\ Len(log) = 2 /\ DistinctUsers
    /\ \A i \in 1..2 :
          /\ ~Privileged(log[i]) /\ log[i].applied /\ log[i].type = Downvote
          /\ log[i].readVotes = <<start["s1"].votes>>
    /\ sponsorTimes["s1"].votes = start["s1"].votes - 2

\* C35: when the downvotes of two different users, each VIP, temp VIP or submitter,
\* have both ended, however their steps interleaved, s1 has exactly -2 votes.
C35_PrivilegedDownvotesStopAtMinusTwo ==
    (Idle /\ Len(log) = 2 /\ DistinctUsers
       /\ \A i \in 1..2 : Privileged(log[i]) /\ log[i].type = Downvote /\ log[i].applied) =>
        sponsorTimes["s1"].votes = -2

\* the call in slot p is inside its critical section on a lock whose lease has not run out
HoldsLiveLock(p) == ~Ended(World, p) /\ proc[p].held /\ proc[p].lock = "set"

\* C36: a release deletes only the releasing call's own lock: while a call is inside its
\* critical section on an unexpired lock, its key stays set, whatever calls with expired
\* leases release, and no other call is inside on an unexpired lock of the same key.
C36_ReleaseKeepsOthersLock ==
    \A p \in Procs : HoldsLiveLock(p) =>
        /\ lockKey(proc[p].UUID, proc[p].paramUserID) \in redis
        /\ \A q \in Procs \ {p} : HoldsLiveLock(q) =>
               lockKey(proc[q].UUID, proc[q].paramUserID)
                  # lockKey(proc[p].UUID, proc[p].paramUserID)

\* C37: once a vote has written and invalidated and every call and every read-through
\* has ended, the key of the video's segment list is absent or holds s1 as the store
\* has it now: a reader that fetched before the write left nothing stale behind.
C37_NoStaleFill ==
    (Idle /\ bg = {} /\ \E i \in 1..Len(log) : log[i].applied) =>
        (cache # <<>> => cache[1]["s1"] = sponsorTimes["s1"])
====
